---- MODULE Spec2Model ----
(***************************************************************************)
(* Trigger-order monitoring and execution pipeline of NepseBot.            *)
(*                                                                         *)
(* The model follows the server code:                                      *)
(*   OrderMonitorService  (order-monitor-service.ts)                       *)
(*   MarketDataService    (market-data-service.ts)                         *)
(*   POST /api/trigger-orders, POST /api/trigger-orders/:id/cancel         *)
(*   DatabaseStorage      (storage.ts)                                     *)
(*                                                                         *)
(* JavaScript runs one handler at a time and switches handlers only at an  *)
(* await.  Every action below is one such segment: the awaited operation   *)
(* named by the run's pc takes effect, and the synchronous code that       *)
(* follows it runs up to the next await.                                   *)
(*                                                                         *)
(* Prices are integers in paisa (1/100 rupee), percentages whole numbers.  *)
(* A computed target price is held in 1/100 paisa until it is stored in a  *)
(* decimal(10,2) column, which rounds it to paisa.                         *)
(***************************************************************************)
EXTENDS Integers, Sequences, FiniteSets, TLC

\* ---- bounds of the model ------------------------------------------------
MaxOrders == 1
MaxRows == 2        \* orders in the specification with store faults
MaxTicks == 2
ExecCap == 2
MaxTimers == 3      \* handles of timers the runtime can give out
Tolerance == 1      \* 0.01 rupees in paisa

\* ---- values --------------------------------------------------------------
NULL == -1
DefaultIntervalMs == 5000
MinIntervalMs == 1000
MockPrice == 100000
retries == 3
Symbols == {"GMLI", "NABIL"}
Prices == {100005, 242400, 261200, 261800}
\* the last traded prices the feed reports, per symbol
Quoted == [s \in Symbols |-> IF s = "GMLI" THEN Prices ELSE {100005}]
Percents == {0, 8}
OrderTypes == {"Buy", "Sell"}
Runs == 1..MaxTicks
Observers == {"w1", "w2"}
\* the symbols an observer names in its messages: any text
WireSymbols == Symbols \cup {"NEPSE", "NEPSE:GMLI"}

PENDING == "PENDING"
MONITORING == "MONITORING"
TRIGGERED == "TRIGGERED"
EXECUTED == "EXECUTED"
FAILED == "FAILED"
CANCELLED == "CANCELLED"
EXECUTION_FAILED == "EXECUTION_FAILED"

ActiveStatuses == {PENDING, MONITORING}
TerminalStatuses == {EXECUTED, FAILED, CANCELLED, EXECUTION_FAILED}

VARIABLES
    orders,          \* the orders table: sequence of rows, row i has id i
    cache,           \* MarketDataService.cache: symbol -> last price or NULL
    fetchedRecently, \* Date.now() - lastFetchTime < fetchInterval
    requestedRecently, \* a fetchLatestData call was made < fetchInterval ago
    attempt,         \* per run: network attempts started by fetchWithRetry
    isRunning,       \* OrderMonitorService.isRunning
    monitorInterval, \* OrderMonitorService.monitorInterval: the handle of
                     \* the timer start() has set, or NULL
    intervalMs,      \* OrderMonitorService.intervalMs
    timers,          \* the repeating timers that are set and not cleared:
                     \* handle -> period in ms
    pc,              \* per monitorOrders run: the operation it is awaiting
    snap,            \* per run: pendingOrders, the rows as read by the select
    marketData,      \* per run: the response data while it is received,
                     \* then the result of fetchLatestData; symbol -> price
    cur,             \* per run: id of the order processOrder is working on
    cancelReq,       \* cancel requests between getOrder and updateOrderStatus
    execCalls,       \* per order: executor calls made by executeOrder (capped)
    executorCalled,  \* per order: the executors executeOrder called, in
                     \* the order of the calls (capped as execCalls)
    createCalls,     \* per order: TMSService.processOrder calls made by the
                     \* request that created the order
    clients,           \* WebSocketService: observer -> set of keys
                       \* "symbol:S" and "order:N" of its subscriptions
    symbolSubscribers, \* WebSocketService: symbol -> set of observers
    orderSubscribers,  \* WebSocketService: order id -> set of observers
    readyState,        \* per observer: readyState of its socket
    inbox,           \* per observer: the messages sent to it, in order
    spelledCache,    \* MarketDataService.cache with its keys as they are
                     \* spelled: key -> the row stored under it
    spelledRecent,   \* Date.now() - lastFetchTime < fetchInterval, for
                     \* the calls that are followed with their spelling
    lastCall         \* the last fresh fetch that returned rows and the
                     \* last fetchLatestData call: symbols asked, rows

registryVars == <<clients, symbolSubscribers, orderSubscribers, readyState>>

busVars == <<registryVars, inbox>>

timerVars == <<monitorInterval, intervalMs, timers>>

spellVars == <<spelledCache, spelledRecent, lastCall>>

vars == <<orders, cache, fetchedRecently, requestedRecently, attempt,
          isRunning, timerVars, spellVars,
          pc, snap, marketData, cur, cancelReq, execCalls,
          executorCalled,
          createCalls, busVars>>

OrderIds == 1..Len(orders)
NoQuotes == [s \in Symbols |-> NULL]
NoSnap == [o \in {} |-> NULL]

\* JavaScript coerces null to 0 in a numeric comparison
Num(x) == IF x = NULL THEN 0 ELSE x

SetMin(S) == CHOOSE x \in S : \A y \in S : x <= y

\* ---- OrderMonitorService pure helpers -----------------------------------
\* variant: the side is ignored, every target lies above the base
calculateTargetPriceIgnoringSide(basePrice, percentage, orderType) ==
    basePrice * (100 + percentage)

\* the result is in 1/100 paisa
calculateTargetPrice(basePrice, percentage, orderType) ==
    IF orderType = "Buy"
    THEN basePrice * (100 + percentage)
    ELSE basePrice * (100 - percentage)

\* a value in 1/100 paisa stored in a decimal(10,2) column: rounded to paisa
decimal2(x) == (x + 50) \div 100

\* variant: strict comparison
isPriceTargetReachedStrict(currentPrice, targetPrice, orderType) ==
    IF orderType = "Buy"
    THEN currentPrice > Num(targetPrice)
    ELSE currentPrice < Num(targetPrice)

isPriceTargetReached(currentPrice, targetPrice, orderType) ==
    IF orderType = "Buy"
    THEN currentPrice >= Num(targetPrice)
    ELSE currentPrice <= Num(targetPrice)

\* ---- store ----------------------------------------------------------------
NewOrder(symbol, orderType, pct, base, target) ==
    [symbol |-> symbol, order_type |-> orderType,
     trigger_price_percent |-> pct,
     base_price |-> base, target_price |-> target,
     trigger_status |-> PENDING,
     last_checked_at |-> FALSE, triggered_at |-> FALSE,
     executed_at |-> FALSE, execution_price |-> NULL]

\* getPendingTriggerOrders: rows whose trigger_status is PENDING or MONITORING
getPendingTriggerOrders ==
    LET sel == {o \in OrderIds : orders[o].trigger_status \in ActiveStatuses}
    IN [o \in sel |-> [base_price |-> orders[o].base_price,
                       target_price |-> orders[o].target_price,
                       trigger_status |-> orders[o].trigger_status]]

\* ---- WebSocketService ------------------------------------------------------
\* inbox keeps the broadcasts sent to an observer; the replies that confirm
\* a connection or a subscription are not broadcasts and are not kept.  The
\* three maps are functions whose domain is the set of keys present.
has(map, key) == key \in DOMAIN map

set(map, key, value) ==
    [k \in DOMAIN map \cup {key} |-> IF k = key THEN value ELSE map[k]]

delete(map, key) == [k \in DOMAIN map \ {key} |-> map[k]]

\* the observers registered for a topic, none when the key is absent
subscribersOf(map, key) == IF has(map, key) THEN map[key] ELSE {}

Message(type, orderId, symbol, status, price) ==
    [type |-> type, orderId |-> orderId, symbol |-> symbol,
     status |-> status, price |-> price]

\* variant: the message is sent whatever the state of the socket
broadcastUnchecked(box, subscribers, message) ==
    [c \in Observers |->
        IF c \in subscribers THEN Append(box[c], message) ELSE box[c]]

\* the message is sent to the subscribers whose socket is open
broadcast(box, subscribers, message) ==
    [c \in Observers |->
        IF c \in subscribers /\ readyState[c] = "OPEN"
        THEN Append(box[c], message)
        ELSE box[c]]

broadcastPriceUpdate(box, symbol, price) ==
    IF ~has(symbolSubscribers, symbol)
    THEN box
    ELSE broadcast(box, symbolSubscribers[symbol],
                   Message("PRICE_UPDATE", 0, symbol, "", price))

broadcastOrderUpdate(box, o, status) ==
    IF ~has(orderSubscribers, o)
    THEN box
    ELSE broadcast(box, orderSubscribers[o],
                   Message("ORDER_STATUS_UPDATE", o, orders[o].symbol,
                           status, NULL))

\* returns at once when the order has no subscribers; else the message goes
\* to the order's subscribers and then to the symbol's subscribers
broadcastTriggerNotification(box, o, status, price) ==
    IF ~has(orderSubscribers, o)
    THEN box
    ELSE LET message == Message("TRIGGER_NOTIFICATION", o, orders[o].symbol,
                                status, price)
             sent == broadcast(box, orderSubscribers[o], message)
         IN IF has(symbolSubscribers, orders[o].symbol)
            THEN broadcast(sent, symbolSubscribers[orders[o].symbol],
                           message)
            ELSE sent

\* ---- MarketDataService ----------------------------------------------------
getStocksFromCache(symbols) ==
    [s \in Symbols |-> IF s \in symbols THEN cache[s] ELSE NULL]

\* variant: nothing is filtered out
processMarketDataUnfiltered(data, symbols) == data

processMarketData(data, symbols) ==
    [s \in Symbols |-> IF s \in symbols THEN data[s] ELSE NULL]

updateCache(stocks) ==
    [s \in Symbols |-> IF stocks[s] # NULL THEN stocks[s] ELSE cache[s]]

MockData(symbols) ==
    [s \in Symbols |-> IF s \in symbols THEN MockPrice ELSE NULL]

\* what the upstream endpoint may answer: a price or no row, per symbol
Responses ==
    {d \in [Symbols -> Prices \cup {NULL}] :
        \A s \in Symbols : d[s] \in Quoted[s] \cup {NULL}}


\* fetchWithRetry returned a response: what fetchLatestData returns, and the
\* cache and rate-limit state it leaves.  lastFetchTime becomes the time of
\* the request, so the fetch counts as recent iff the request still is
\* (recent); a response of the wrong format ends in the catch block
ResponseOutcomes(symbols, recent) ==
    {[stocks |-> processMarketData(d, symbols),
      cache |-> updateCache(processMarketData(d, symbols)),
      recent |-> recent] : d \in Responses}
    \cup {[stocks |-> MockData(symbols), cache |-> cache, recent |-> recent]}

\* fetchWithRetry threw after its last attempt: the catch block
GiveUpOutcome(symbols) ==
    [stocks |-> MockData(symbols), cache |-> cache, recent |-> fetchedRecently]

\* the possible results of the network path of a fetchLatestData(symbols)
\* call that is followed from request to return in one step
NetworkOutcomes(symbols) ==
    ResponseOutcomes(symbols, TRUE) \cup {GiveUpOutcome(symbols)}

\* the rate-limited path: served from the cache, nothing changes
CachedOutcome(symbols) ==
    [stocks |-> getStocksFromCache(symbols), cache |-> cache,
     recent |-> fetchedRecently]

fetchLatestData(symbols) ==
    IF fetchedRecently THEN {CachedOutcome(symbols)}
    ELSE NetworkOutcomes(symbols)

\* ---- initial state --------------------------------------------------------
Init ==
    /\ orders = <<>>
    /\ cache = NoQuotes
    /\ fetchedRecently = FALSE
    /\ requestedRecently = FALSE
    /\ attempt = [r \in Runs |-> 0]
    /\ isRunning = FALSE
    /\ monitorInterval = NULL
    /\ intervalMs = DefaultIntervalMs
    /\ timers = <<>>
    /\ pc = [r \in Runs |-> "idle"]
    /\ snap = [r \in Runs |-> NoSnap]
    /\ marketData = [r \in Runs |-> NoQuotes]
    /\ cur = [r \in Runs |-> 0]
    /\ cancelReq = {}
    /\ execCalls = <<>>
    /\ executorCalled = <<>>
    /\ createCalls = <<>>
    /\ clients = <<>>
    /\ symbolSubscribers = <<>>
    /\ orderSubscribers = <<>>
    /\ readyState = [c \in Observers |-> "CONNECTING"]
    /\ inbox = [c \in Observers |-> <<>>]
    /\ spelledCache = <<>>
    /\ spelledRecent = FALSE
    /\ lastCall = [freshSymbols |-> {}, freshStocks |-> {},
                   symbols |-> {}, stocks |-> {}, path |-> "none"]

\* ---- the run of monitorOrders: bookkeeping --------------------------------
\* attempt is the loop counter of fetchWithRetry: it counts the attempts of
\* the call in progress and is gone with the call
RunTo(r, p, o, s, m) ==
    /\ pc' = [pc EXCEPT ![r] = p]
    /\ attempt' = [attempt EXCEPT ![r] =
                      IF p = "fetch"
                      THEN (IF pc[r] = "retryDelay" THEN @ + 1 ELSE 1)
                      ELSE IF p = "retryDelay" THEN @ ELSE 0]
    /\ cur' = [cur EXCEPT ![r] = o]
    /\ snap' = [snap EXCEPT ![r] = s]
    /\ marketData' = [marketData EXCEPT ![r] = m]

RunStep(r, p) == RunTo(r, p, cur[r], snap[r], marketData[r])

\* the for loop over pendingOrders: orders without a quote are skipped, the
\* next one with a quote enters processOrder (which awaits updateLastChecked);
\* when none is left monitorOrders returns
\* variant: the loop ends at the first order without a quote
ContinueLoopStopsAtMissingQuote(r, after, s, m) ==
    LET later == {o \in DOMAIN s : o > after}
    IN IF later = {} \/ m[orders[SetMin(later)].symbol] = NULL
       THEN RunTo(r, "done", 0, NoSnap, NoQuotes)
       ELSE RunTo(r, "lastChecked", SetMin(later), s, m)

ContinueLoop(r, after, s, m) ==
    LET rest == {o \in DOMAIN s : o > after /\ m[orders[o].symbol] # NULL}
    IN IF rest = {}
       THEN RunTo(r, "done", 0, NoSnap, NoQuotes)
       ELSE RunTo(r, "lastChecked", SetMin(rest), s, m)

\* after fetchLatestData returned: an empty result ends the run
AfterFetch(r, s, m) ==
    IF \A sym \in Symbols : m[sym] = NULL
    THEN RunTo(r, "done", 0, NoSnap, NoQuotes)
    ELSE ContinueLoop(r, 0, s, m)

\* variant: only the symbol of the first order is asked for
activeSymbolsOfFirstOrder(s) ==
    {orders[SetMin(DOMAIN s)].symbol}

activeSymbols(s) ==
    {orders[o].symbol : o \in DOMAIN s}

currentPrice(r) == marketData[r][orders[cur[r]].symbol]

\* ---- OrderMonitorService.start --------------------------------------------
\* the fields of the monitor that start, stop and setInterval work on
Timer ==
    [isRunning |-> isRunning, monitorInterval |-> monitorInterval,
     intervalMs |-> intervalMs, timers |-> timers]

SetTimer(t) ==
    /\ isRunning' = t.isRunning
    /\ monitorInterval' = t.monitorInterval
    /\ intervalMs' = t.intervalMs
    /\ timers' = t.timers

\* the handle the runtime gives to a new timer
NewHandle(t) == SetMin((1..MaxTimers) \ DOMAIN t.timers)

\* variant: start does not look at isRunning
startUnguarded(t) ==
    [t EXCEPT !.isRunning = TRUE,
              !.monitorInterval = NewHandle(t),
              !.timers = set(t.timers, NewHandle(t), t.intervalMs)]

start(t) ==
    IF t.isRunning
    THEN t
    ELSE [t EXCEPT !.isRunning = TRUE,
                   !.monitorInterval = NewHandle(t),
                   !.timers = set(t.timers, NewHandle(t), t.intervalMs)]

stop(t) ==
    IF ~t.isRunning
    THEN t
    ELSE [t EXCEPT !.isRunning = FALSE,
                   !.monitorInterval = NULL,
                   !.timers = IF t.monitorInterval # NULL
                              THEN delete(t.timers, t.monitorInterval)
                              ELSE t.timers]

setInterval(t, ms) ==
    LET u == [t EXCEPT !.intervalMs = IF ms < MinIntervalMs
                                      THEN MinIntervalMs ELSE ms]
    IN IF u.isRunning THEN start(stop(u)) ELSE u

Start ==
    /\ ~isRunning
    /\ SetTimer(start(Timer))
    /\ UNCHANGED <<orders, cache, fetchedRecently, requestedRecently,
                   attempt, pc, snap, marketData, cur, cancelReq, execCalls,
                   executorCalled,
                   createCalls, busVars, spellVars>>

\* ---- the repeating timer (or checkNow) calls monitorOrders ----------------
\* Nothing in start(), checkNow() or monitorOrders() looks at a run that is
\* still in progress.  Each firing gets its own run; at most MaxTicks firings
\* are followed.  The run reads the active orders (getPendingTriggerOrders),
\* returns when there are none, and calls fetchLatestData, which serves the
\* cache when the last fetch is recent and else goes to the network.
\* variant: the feed is called even when no order is active
StartMonitorRunAlwaysFetches(r) ==
    /\ isRunning
    /\ pc[r] = "idle"
    /\ \A q \in Runs : q < r => pc[q] # "idle"
    /\ requestedRecently' = TRUE
    /\ LET s == getPendingTriggerOrders
       IN IF fetchedRecently
          THEN AfterFetch(r, s, getStocksFromCache(activeSymbols(s)))
          ELSE RunTo(r, "fetch", 0, s, NoQuotes)
    /\ UNCHANGED <<orders, cache, fetchedRecently, isRunning, timerVars,
                   spellVars,
                   cancelReq,
                   execCalls, executorCalled, createCalls, busVars>>

StartMonitorRun(r) ==
    /\ isRunning
    /\ pc[r] = "idle"
    /\ \A q \in Runs : q < r => pc[q] # "idle"
    /\ LET s == getPendingTriggerOrders
       IN IF DOMAIN s = {}
          THEN /\ RunTo(r, "done", 0, NoSnap, NoQuotes)
               /\ UNCHANGED requestedRecently
          ELSE /\ requestedRecently' = TRUE
               /\ IF fetchedRecently
                  THEN AfterFetch(r, s, getStocksFromCache(activeSymbols(s)))
                  ELSE RunTo(r, "fetch", 0, s, NoQuotes)
    /\ UNCHANGED <<orders, cache, fetchedRecently, isRunning, timerVars,
                   spellVars,
                   cancelReq,
                   execCalls, executorCalled,
                   createCalls, busVars>>

\* an attempt of fetchWithRetry is answered: the response, of the right
\* format or not, is on its way and its body is being read; no further
\* attempt is made
FetchDone(r) ==
    /\ pc[r] = "fetch"
    /\ \/ \E d \in Responses : RunTo(r, "received", 0, snap[r], d)
       \/ RunTo(r, "receivedInvalid", 0, snap[r], NoQuotes)
    /\ UNCHANGED <<orders, cache, fetchedRecently, requestedRecently,
                   isRunning, timerVars,
                   spellVars, cancelReq, execCalls, executorCalled,
                   createCalls, busVars>>

\* what fetchLatestData does with the data fetchWithRetry returned
ReturnOutcome(r) ==
    LET symbols == activeSymbols(snap[r])
    IN IF pc[r] = "received"
       THEN [stocks |-> processMarketData(marketData[r], symbols),
             cache |-> updateCache(processMarketData(marketData[r], symbols)),
             recent |-> requestedRecently]
       ELSE [stocks |-> MockData(symbols), cache |-> cache,
             recent |-> requestedRecently]

\* fetchWithRetry returns the data: fetchLatestData sets lastFetchTime to the
\* time of the request, checks the format, filters and caches the quotes and
\* returns them; data of the wrong format ends in the catch block
FetchReturns(r) ==
    /\ pc[r] \in {"received", "receivedInvalid"}
    /\ cache' = ReturnOutcome(r).cache
    /\ fetchedRecently' = ReturnOutcome(r).recent
    /\ AfterFetch(r, snap[r], ReturnOutcome(r).stocks)
    /\ UNCHANGED <<orders, requestedRecently, isRunning, timerVars, spellVars,
                   cancelReq, execCalls,
                   executorCalled,
                   createCalls, busVars>>

\* variant: a failed attempt is always followed by another one
FetchAttemptFailsAndRetries(r) ==
    /\ pc[r] = "fetch"
    /\ RunStep(r, "retryDelay")
    /\ UNCHANGED <<orders, cache, fetchedRecently, requestedRecently,
                   isRunning, timerVars,
                   spellVars, cancelReq, execCalls, executorCalled,
                   createCalls, busVars>>

\* an attempt of fetchWithRetry failed (network error, timeout, HTTP status):
\* before the last attempt the delay is awaited, after it the error is
\* thrown and the catch block of fetchLatestData answers
FetchAttemptFails(r) ==
    /\ pc[r] = "fetch"
    /\ IF attempt[r] < retries
       THEN RunStep(r, "retryDelay")
       ELSE AfterFetch(r, snap[r],
                       GiveUpOutcome(activeSymbols(snap[r])).stocks)
    /\ UNCHANGED <<orders, cache, fetchedRecently, requestedRecently,
                   isRunning, timerVars,
                   spellVars, cancelReq, execCalls, executorCalled,
                   createCalls, busVars>>

\* the delay between two attempts is over: the next attempt is made
RetryDelayDone(r) ==
    /\ pc[r] = "retryDelay"
    /\ RunStep(r, "fetch")
    /\ UNCHANGED <<orders, cache, fetchedRecently, requestedRecently,
                   isRunning, timerVars,
                   spellVars, cancelReq, execCalls, executorCalled,
                   createCalls, busVars>>

\* time passes: every request made so far is now older than fetchInterval
IntervalElapses ==
    /\ requestedRecently
    /\ fetchedRecently' = FALSE
    /\ requestedRecently' = FALSE
    /\ UNCHANGED <<orders, cache, attempt, isRunning, timerVars, spellVars,
                   pc, snap, marketData,
                   cur, cancelReq, execCalls, executorCalled,
                   createCalls, busVars>>


\* ---- processOrder ---------------------------------------------------------
\* updateLastChecked returns; then base price unset: setBasePrice is issued;
\* else the trigger condition is evaluated on the row as read by the select
UpdateLastCheckedDone(r) ==
    /\ pc[r] = "lastChecked"
    /\ LET o == cur[r]
           order == snap[r][o]
       IN /\ orders' = [orders EXCEPT ![o].last_checked_at = TRUE]
          /\ IF order.base_price = NULL
             THEN RunStep(r, "setBase")
             ELSE IF isPriceTargetReached(currentPrice(r), order.target_price,
                                          orders[o].order_type)
                  THEN RunStep(r, "setTriggered")
                  ELSE ContinueLoop(r, o, snap[r], marketData[r])
          /\ inbox' =
                IF order.base_price = NULL
                THEN inbox
                ELSE LET priced == broadcastPriceUpdate(inbox,
                                       orders[o].symbol, currentPrice(r))
                     IN IF isPriceTargetReached(currentPrice(r),
                               order.target_price, orders[o].order_type)
                        THEN priced
                        ELSE broadcastOrderUpdate(priced, o,
                                                  order.trigger_status)
    /\ UNCHANGED <<cache, fetchedRecently, requestedRecently,
                   isRunning, timerVars, spellVars,
                   cancelReq, execCalls,
                   executorCalled, createCalls, registryVars>>

\* setBasePrice returns; target price unset: setTargetPrice is issued
SetBasePriceDone(r) ==
    /\ pc[r] = "setBase"
    /\ LET o == cur[r]
       IN /\ orders' = [orders EXCEPT ![o].base_price = currentPrice(r)]
          /\ IF snap[r][o].target_price = NULL
             THEN RunStep(r, "setTarget")
             ELSE RunStep(r, "setMonitoring")
    /\ UNCHANGED <<cache, fetchedRecently, requestedRecently,
                   isRunning, timerVars, spellVars,
                   cancelReq, execCalls, executorCalled,
                   createCalls, busVars>>

SetTargetPriceDone(r) ==
    /\ pc[r] = "setTarget"
    /\ LET o == cur[r]
       IN orders' = [orders EXCEPT ![o].target_price =
                        decimal2(calculateTargetPrice(currentPrice(r),
                                             orders[o].trigger_price_percent,
                                             orders[o].order_type))]
    /\ RunStep(r, "setMonitoring")
    /\ UNCHANGED <<cache, fetchedRecently, requestedRecently,
                   isRunning, timerVars, spellVars,
                   cancelReq, execCalls, executorCalled,
                   createCalls, busVars>>

\* variant: after the status update the evaluation goes on to the trigger
\* check instead of returning
SetMonitoringDoneNoReturn(r) ==
    /\ pc[r] = "setMonitoring"
    /\ orders' = [orders EXCEPT ![cur[r]].trigger_status = MONITORING]
    /\ IF isPriceTargetReached(currentPrice(r), orders[cur[r]].target_price,
                               orders[cur[r]].order_type)
       THEN RunStep(r, "setTriggered")
       ELSE ContinueLoop(r, cur[r], snap[r], marketData[r])
    /\ inbox' = broadcastOrderUpdate(inbox, cur[r], MONITORING)
    /\ UNCHANGED <<cache, fetchedRecently, requestedRecently,
                   isRunning, timerVars, spellVars,
                   cancelReq, execCalls,
                   executorCalled, createCalls, registryVars>>

\* updateTriggerStatus(MONITORING) returns; the status is broadcast and
\* processOrder returns
SetMonitoringDone(r) ==
    /\ pc[r] = "setMonitoring"
    /\ orders' = [orders EXCEPT ![cur[r]].trigger_status = MONITORING]
    /\ ContinueLoop(r, cur[r], snap[r], marketData[r])
    /\ inbox' = broadcastOrderUpdate(inbox, cur[r], MONITORING)
    /\ UNCHANGED <<cache, fetchedRecently, requestedRecently,
                   isRunning, timerVars, spellVars,
                   cancelReq, execCalls,
                   executorCalled, createCalls, registryVars>>

\* updateTriggerStatus(TRIGGERED) returns; setTriggeredAt is issued
SetTriggeredDone(r) ==
    /\ pc[r] = "setTriggered"
    /\ orders' = [orders EXCEPT ![cur[r]].trigger_status = TRIGGERED]
    /\ RunStep(r, "setTriggeredAt")
    /\ UNCHANGED <<cache, fetchedRecently, requestedRecently,
                   isRunning, timerVars, spellVars,
                   cancelReq, execCalls, executorCalled,
                   createCalls, busVars>>

CountCall(n) == IF n < ExecCap THEN n + 1 ELSE n

\* executeOrder: the choice of the executor, made on the row as the select
\* read it.  Prices are in paisa, so the tolerance 0.01 is 1.
Abs(x) == IF x < 0 THEN -x ELSE x

isBasePriceEqualsTargetPrice(order, pct) ==
    \/ /\ order.base_price # NULL
       /\ order.target_price # NULL
       /\ Abs(order.base_price - order.target_price) < Tolerance
    \/ pct = 0

\* variant: every order goes to the direct executor
executorAlwaysDirect(order, pct) == "TMSService.processOrder"

executor(order, pct) ==
    IF isBasePriceEqualsTargetPrice(order, pct)
    THEN "NepseTMSService.executeOrder"
    ELSE "TMSService.processOrder"

\* setTriggeredAt returns; the trigger notification is broadcast and
\* executeOrder calls the executor
SetTriggeredAtDone(r) ==
    /\ pc[r] = "setTriggeredAt"
    /\ orders' = [orders EXCEPT ![cur[r]].triggered_at = TRUE]
    /\ execCalls' = [execCalls EXCEPT ![cur[r]] = CountCall(@)]
    /\ executorCalled' =
          [executorCalled EXCEPT ![cur[r]] =
              IF execCalls[cur[r]] < ExecCap
              THEN Append(@, executor(snap[r][cur[r]],
                                      orders[cur[r]].trigger_price_percent))
              ELSE @]
    /\ RunStep(r, "exec")
    /\ inbox' = broadcastTriggerNotification(inbox, cur[r], TRIGGERED,
                                             currentPrice(r))
    /\ UNCHANGED <<cache, fetchedRecently, requestedRecently,
                   isRunning, timerVars, spellVars,
                   cancelReq, createCalls, registryVars>>

\* ---- executeOrder ---------------------------------------------------------
\* variant: the stored target price is recorded as execution price
ExecSuccessTargetPrice(r) ==
    /\ pc[r] = "exec"
    /\ orders' = [orders EXCEPT ![cur[r]].executed_at = TRUE,
                                ![cur[r]].execution_price =
                                    orders[cur[r]].target_price,
                                ![cur[r]].trigger_status = EXECUTED]
    /\ ContinueLoop(r, cur[r], snap[r], marketData[r])
    /\ UNCHANGED <<cache, fetchedRecently, requestedRecently,
                   isRunning, timerVars, spellVars,
                   cancelReq, execCalls, executorCalled,
                   createCalls, busVars>>

\* the executor returned success and the update that records the execution
\* has been applied
ExecSuccess(r) ==
    /\ pc[r] = "exec"
    /\ orders' = [orders EXCEPT ![cur[r]].executed_at = TRUE,
                                ![cur[r]].execution_price = currentPrice(r),
                                ![cur[r]].trigger_status = EXECUTED]
    /\ ContinueLoop(r, cur[r], snap[r], marketData[r])
    /\ UNCHANGED <<cache, fetchedRecently, requestedRecently,
                   isRunning, timerVars, spellVars,
                   cancelReq, execCalls, executorCalled,
                   createCalls, busVars>>

\* variant: the catch block of executeOrder writes nothing
ExecFailureKeepsStatus(r) ==
    /\ pc[r] = "exec"
    /\ ContinueLoop(r, cur[r], snap[r], marketData[r])
    /\ UNCHANGED <<orders, cache, fetchedRecently, requestedRecently,
                   isRunning, timerVars, spellVars, cancelReq, execCalls,
                   executorCalled, createCalls, busVars>>

\* the executor returned failure or threw, and the update of the catch block
\* has been applied
ExecFailure(r) ==
    /\ pc[r] = "exec"
    /\ orders' = [orders EXCEPT ![cur[r]].trigger_status = EXECUTION_FAILED]
    /\ ContinueLoop(r, cur[r], snap[r], marketData[r])
    /\ UNCHANGED <<cache, fetchedRecently, requestedRecently,
                   isRunning, timerVars, spellVars,
                   cancelReq, execCalls, executorCalled,
                   createCalls, busVars>>

\* ---- faults of the store ---------------------------------------------------
\* an awaited update of processOrder throws: the catch block of processOrder
\* issues updateTriggerStatus(FAILED)
StoreUpdateFails(r) ==
    /\ pc[r] \in {"lastChecked", "setBase", "setTarget", "setMonitoring",
                  "setTriggered", "setTriggeredAt"}
    /\ RunStep(r, "setFailed")
    /\ UNCHANGED <<orders, cache, fetchedRecently, requestedRecently,
                   isRunning, timerVars, spellVars, cancelReq, execCalls,
                   executorCalled, createCalls, busVars>>

\* in executeOrder the update that records the outcome throws and the update
\* of its catch block throws too: executeOrder rejects into the catch block
\* of processOrder
ExecUpdatesFail(r) ==
    /\ pc[r] = "exec"
    /\ RunStep(r, "setFailed")
    /\ UNCHANGED <<orders, cache, fetchedRecently, requestedRecently,
                   isRunning, timerVars, spellVars, cancelReq, execCalls,
                   executorCalled, createCalls, busVars>>

\* updateTriggerStatus(FAILED) returns; the status is broadcast and
\* processOrder returns
SetFailedDone(r) ==
    /\ pc[r] = "setFailed"
    /\ orders' = [orders EXCEPT ![cur[r]].trigger_status = FAILED]
    /\ ContinueLoop(r, cur[r], snap[r], marketData[r])
    /\ inbox' = broadcastOrderUpdate(inbox, cur[r], FAILED)
    /\ UNCHANGED <<cache, fetchedRecently, requestedRecently,
                   isRunning, timerVars, spellVars,
                   cancelReq, execCalls,
                   executorCalled, createCalls, registryVars>>

\* variant: the rejection of monitorOrders ends the timer
SetFailedFailsStopsTimer(r) ==
    /\ pc[r] = "setFailed"
    /\ RunTo(r, "done", 0, NoSnap, NoQuotes)
    /\ isRunning' = FALSE
    /\ UNCHANGED <<timerVars, spellVars>>
    /\ UNCHANGED <<orders, cache, fetchedRecently, requestedRecently,
                   cancelReq, execCalls, executorCalled, createCalls, busVars>>

\* updateTriggerStatus(FAILED) throws inside the catch block: processOrder
\* and monitorOrders reject, the callback of the timer logs the error
SetFailedFails(r) ==
    /\ pc[r] = "setFailed"
    /\ RunTo(r, "done", 0, NoSnap, NoQuotes)
    /\ UNCHANGED <<orders, cache, fetchedRecently, requestedRecently,
                   isRunning, timerVars, spellVars, cancelReq, execCalls,
                   executorCalled, createCalls, busVars>>

\* the select of getPendingTriggerOrders throws: its catch block returns an
\* empty list and monitorOrders returns
SelectFails(r) ==
    /\ isRunning
    /\ pc[r] = "idle"
    /\ \A q \in Runs : q < r => pc[q] # "idle"
    /\ RunTo(r, "done", 0, NoSnap, NoQuotes)
    /\ UNCHANGED <<orders, cache, fetchedRecently, requestedRecently,
                   isRunning, timerVars, spellVars, cancelReq, execCalls,
                   executorCalled, createCalls, busVars>>

\* ---- POST /api/trigger-orders/:id/cancel ----------------------------------
cancellableStatuses == {PENDING, MONITORING}

\* getOrder returns and the status check passes: updateOrderStatus is issued
CancelRead(o) ==
    /\ o \in OrderIds
    /\ o \notin cancelReq
    /\ orders[o].trigger_status \in cancellableStatuses
    /\ cancelReq' = cancelReq \cup {o}
    /\ UNCHANGED <<orders, cache, fetchedRecently, requestedRecently,
                   attempt, isRunning, timerVars, spellVars,
                   pc, snap, marketData, cur, execCalls,
                   executorCalled,
                   createCalls, busVars>>

\* storage.updateOrderStatus(id, CANCELLED) returns
CancelWrite(o) ==
    /\ o \in cancelReq
    /\ orders' = [orders EXCEPT ![o].trigger_status = CANCELLED]
    /\ cancelReq' = cancelReq \ {o}
    /\ UNCHANGED <<cache, fetchedRecently, requestedRecently, attempt,
                   isRunning, timerVars,
                   spellVars, pc, snap, marketData, cur, execCalls,
                   executorCalled,
                   createCalls, busVars>>

\* ---- creation of orders ---------------------------------------------------
\* POST /api/trigger-orders: the current price becomes the base price, the
\* target price is computed from it, TMSService.processOrder is called with
\* the form data and, when it reports success (tmsOk), the row is inserted
\* PENDING.  The form schema wants a positive percentage.
CreateRow(symbol, orderType, pct) ==
    /\ pct > 0
    /\ \E out \in fetchLatestData({symbol}), tmsOk \in BOOLEAN :
          /\ cache' = out.cache
          /\ fetchedRecently' = out.recent
          /\ requestedRecently' = TRUE
          /\ IF out.stocks[symbol] = NULL \/ ~tmsOk
             THEN UNCHANGED <<orders, execCalls, executorCalled, createCalls>>
             ELSE LET price == out.stocks[symbol]
                      targetPrice == IF orderType = "Buy"
                                     THEN price * (100 + pct)
                                     ELSE price * (100 - pct)
                      target == decimal2(targetPrice)
                  IN /\ orders' = Append(orders,
                            NewOrder(symbol, orderType, pct, price, target))
                     /\ execCalls' = Append(execCalls, 0)
                     /\ executorCalled' = Append(executorCalled, <<>>)
                     /\ createCalls' = Append(createCalls, 1)
    /\ UNCHANGED <<attempt, isRunning, timerVars, spellVars,
                   pc, snap, marketData, cur, cancelReq,
                   busVars>>

CreateTriggerOrder(symbol, orderType, pct) ==
    /\ Len(orders) < MaxOrders
    /\ CreateRow(symbol, orderType, pct)

\* storage.createOrder with a row that has no base and no target price yet
InsertRow(symbol, orderType, pct) ==
    /\ orders' = Append(orders, NewOrder(symbol, orderType, pct, NULL, NULL))
    /\ execCalls' = Append(execCalls, 0)
    /\ executorCalled' = Append(executorCalled, <<>>)
    /\ createCalls' = Append(createCalls, 0)
    /\ UNCHANGED <<cache, fetchedRecently, requestedRecently, attempt,
                   isRunning, timerVars, spellVars,
                   pc, snap, marketData, cur, cancelReq, busVars>>

InsertOrder(symbol, orderType, pct) ==
    /\ Len(orders) < MaxOrders
    /\ InsertRow(symbol, orderType, pct)

\* ---- subscription messages of an observer ---------------------------------
pipelineVars == <<orders, cache, fetchedRecently, requestedRecently, attempt,
                  isRunning, timerVars, spellVars,
                  pc, snap, marketData, cur, cancelReq, execCalls,
                  executorCalled,
                  createCalls>>

\* the key under which a subscription is tracked in clients
symbolKey(symbol) == "symbol:" \o symbol

orderKey(orderId) == "order:" \o ToString(orderId)

\* the three maps as one value, for the handlers that call each other
Registry ==
    [clients |-> clients, symbolSubscribers |-> symbolSubscribers,
     orderSubscribers |-> orderSubscribers]

SetRegistry(reg) ==
    /\ clients' = reg.clients
    /\ symbolSubscribers' = reg.symbolSubscribers
    /\ orderSubscribers' = reg.orderSubscribers

symbolSubscription(reg, ws, symbol) ==
    LET subscribers == IF has(reg.symbolSubscribers, symbol)
                       THEN reg.symbolSubscribers[symbol]
                       ELSE {}
    IN [reg EXCEPT !.symbolSubscribers =
                       set(@, symbol, subscribers \cup {ws}),
                   !.clients[ws] = @ \cup {symbolKey(symbol)}]

\* variant: the observer stays in the subscriber set of the symbol
symbolUnsubscriptionKeepsSubscriber(reg, ws, symbol) ==
    IF ~has(reg.symbolSubscribers, symbol)
    THEN reg
    ELSE [reg EXCEPT !.clients[ws] = @ \ {symbolKey(symbol)}]

symbolUnsubscription(reg, ws, symbol) ==
    IF ~has(reg.symbolSubscribers, symbol)
    THEN reg
    ELSE LET left == reg.symbolSubscribers[symbol] \ {ws}
         IN [reg EXCEPT !.symbolSubscribers =
                            IF left = {} THEN delete(@, symbol)
                                         ELSE set(@, symbol, left),
                        !.clients[ws] = @ \ {symbolKey(symbol)}]

orderSubscription(reg, ws, orderId) ==
    LET subscribers == IF has(reg.orderSubscribers, orderId)
                       THEN reg.orderSubscribers[orderId]
                       ELSE {}
    IN [reg EXCEPT !.orderSubscribers =
                       set(@, orderId, subscribers \cup {ws}),
                   !.clients[ws] = @ \cup {orderKey(orderId)}]

orderUnsubscription(reg, ws, orderId) ==
    IF ~has(reg.orderSubscribers, orderId)
    THEN reg
    ELSE LET left == reg.orderSubscribers[orderId] \ {ws}
         IN [reg EXCEPT !.orderSubscribers =
                            IF left = {} THEN delete(@, orderId)
                                         ELSE set(@, orderId, left),
                        !.clients[ws] = @ \ {orderKey(orderId)}]

\* sub.split(':'): the pieces between the colons of a key.  The pieces are
\* found among the texts without a colon that occur in keys.
Pieces ==
    {"symbol", "order"} \cup Symbols \cup {"NEPSE"}
        \cup {ToString(n) : n \in 1..MaxRows}

join(parts) ==
    IF Len(parts) = 2
    THEN parts[1] \o ":" \o parts[2]
    ELSE parts[1] \o ":" \o parts[2] \o ":" \o parts[3]

split(text) ==
    CHOOSE parts \in [1..2 -> Pieces] \cup [1..3 -> Pieces] :
        join(parts) = text

parseInt(text) == CHOOSE n \in 1..MaxRows : ToString(n) = text

\* the for loop of handleDisconnect over the tracked keys of ws; a key that
\* an earlier unsubscription has removed from the set is not visited
RECURSIVE unsubscribeAll(_, _, _)
unsubscribeAll(reg, ws, todo) ==
    IF todo = {}
    THEN reg
    ELSE LET sub == CHOOSE k \in todo : TRUE
             type == split(sub)[1]
             id == split(sub)[2]
             after == IF sub \notin reg.clients[ws]
                      THEN reg
                      ELSE IF type = "symbol"
                      THEN symbolUnsubscription(reg, ws, id)
                      ELSE IF type = "order"
                      THEN orderUnsubscription(reg, ws, parseInt(id))
                      ELSE reg
         IN unsubscribeAll(after, ws, todo \ {sub})

\* a message of an observer is handled while its socket is open
handleSymbolSubscription(ws, symbol) ==
    /\ readyState[ws] = "OPEN"
    /\ SetRegistry(symbolSubscription(Registry, ws, symbol))
    /\ UNCHANGED <<pipelineVars, readyState, inbox>>

handleSymbolUnsubscription(ws, symbol) ==
    /\ readyState[ws] = "OPEN"
    /\ SetRegistry(symbolUnsubscription(Registry, ws, symbol))
    /\ UNCHANGED <<pipelineVars, readyState, inbox>>

handleOrderSubscription(ws, orderId) ==
    /\ readyState[ws] = "OPEN"
    /\ SetRegistry(orderSubscription(Registry, ws, orderId))
    /\ UNCHANGED <<pipelineVars, readyState, inbox>>

handleOrderUnsubscription(ws, orderId) ==
    /\ readyState[ws] = "OPEN"
    /\ SetRegistry(orderUnsubscription(Registry, ws, orderId))
    /\ UNCHANGED <<pipelineVars, readyState, inbox>>

\* wss.on('connection'): the observer is tracked with no subscription
connection(ws) ==
    /\ readyState[ws] = "CONNECTING"
    /\ readyState' = [readyState EXCEPT ![ws] = "OPEN"]
    /\ clients' = set(clients, ws, {})
    /\ UNCHANGED <<pipelineVars, symbolSubscribers, orderSubscribers, inbox>>

\* ws.on('close'): every tracked subscription is undone, then the observer
\* is no longer tracked
handleDisconnect(ws) ==
    /\ readyState[ws] = "CLOSING"
    /\ readyState' = [readyState EXCEPT ![ws] = "CLOSED"]
    /\ LET reg == IF has(clients, ws)
                  THEN unsubscribeAll(Registry, ws, clients[ws])
                  ELSE Registry
       IN SetRegistry([reg EXCEPT !.clients = delete(@, ws)])
    /\ UNCHANGED <<pipelineVars, inbox>>

\* the socket of an observer begins to close; its 'close' event comes later
socketCloses(ws) ==
    /\ readyState[ws] = "OPEN"
    /\ readyState' = [readyState EXCEPT ![ws] = "CLOSING"]
    /\ UNCHANGED <<pipelineVars, clients, symbolSubscribers,
                   orderSubscribers, inbox>>

\* ---- specification --------------------------------------------------------
Next ==
    \/ Start
    \/ IntervalElapses
    \/ \E r \in Runs : StartMonitorRun(r)
    \/ \E r \in Runs : FetchDone(r)
    \/ \E r \in Runs : FetchReturns(r)
    \/ \E r \in Runs : FetchAttemptFails(r)
    \/ \E r \in Runs : RetryDelayDone(r)
    \/ \E r \in Runs : UpdateLastCheckedDone(r)
    \/ \E r \in Runs : SetBasePriceDone(r)
    \/ \E r \in Runs : SetTargetPriceDone(r)
    \/ \E r \in Runs : SetMonitoringDone(r)
    \/ \E r \in Runs : SetTriggeredDone(r)
    \/ \E r \in Runs : SetTriggeredAtDone(r)
    \/ \E r \in Runs : ExecSuccess(r)
    \/ \E r \in Runs : ExecFailure(r)
    \/ \E o \in 1..MaxOrders : CancelRead(o)
    \/ \E o \in 1..MaxOrders : CancelWrite(o)
    \/ \E s \in Symbols, t \in OrderTypes, p \in Percents :
          CreateTriggerOrder(s, t, p)
    \/ \E s \in Symbols, t \in OrderTypes, p \in Percents :
          InsertOrder(s, t, p)

Spec == Init /\ [][Next]_vars

\* ---- one monitor run with observers ---------------------------------------
\* the first firing of the timer, the requests of the API and the
\* subscription messages of the observers; every fetch attempt is answered
BusRun == 1

BusNext ==
    \/ Start
    \/ StartMonitorRun(BusRun)
    \/ FetchDone(BusRun)
    \/ FetchReturns(BusRun)
    \/ UpdateLastCheckedDone(BusRun)
    \/ SetBasePriceDone(BusRun)
    \/ SetTargetPriceDone(BusRun)
    \/ SetMonitoringDone(BusRun)
    \/ SetTriggeredDone(BusRun)
    \/ SetTriggeredAtDone(BusRun)
    \/ ExecSuccess(BusRun)
    \/ ExecFailure(BusRun)
    \/ \E o \in 1..MaxOrders : CancelRead(o)
    \/ \E o \in 1..MaxOrders : CancelWrite(o)
    \/ \E s \in Symbols, t \in OrderTypes, p \in Percents :
          CreateTriggerOrder(s, t, p)
    \/ \E s \in Symbols, t \in OrderTypes, p \in Percents :
          InsertOrder(s, t, p)
    \/ \E ws \in Observers : connection(ws)
    \/ \E ws \in Observers, s \in Symbols : handleSymbolSubscription(ws, s)
    \/ \E ws \in Observers, s \in Symbols : handleSymbolUnsubscription(ws, s)
    \/ \E ws \in Observers, o \in 1..MaxOrders :
          handleOrderSubscription(ws, o)
    \/ \E ws \in Observers, o \in 1..MaxOrders :
          handleOrderUnsubscription(ws, o)

BusSpec == Init /\ [][BusNext]_vars

\* ---- one monitor run over two orders with a failing store ------------------
\* the observers that subscribe while the store is failing
FaultObservers == {"w1"}

FaultNext ==
    \/ Start
    \/ StartMonitorRun(BusRun)
    \/ FetchDone(BusRun)
    \/ FetchReturns(BusRun)
    \/ UpdateLastCheckedDone(BusRun)
    \/ SetBasePriceDone(BusRun)
    \/ SetTargetPriceDone(BusRun)
    \/ SetMonitoringDone(BusRun)
    \/ SetTriggeredDone(BusRun)
    \/ SetTriggeredAtDone(BusRun)
    \/ ExecSuccess(BusRun)
    \/ ExecFailure(BusRun)
    \/ StoreUpdateFails(BusRun)
    \/ ExecUpdatesFail(BusRun)
    \/ SetFailedDone(BusRun)
    \/ SetFailedFails(BusRun)
    \/ \E s \in Symbols, t \in OrderTypes, p \in Percents :
          Len(orders) < MaxRows /\ InsertRow(s, t, p)
    \/ \E s \in Symbols, t \in OrderTypes, p \in Percents :
          Len(orders) < MaxRows /\ CreateRow(s, t, p)
    \/ \E ws \in FaultObservers : connection(ws)
    \/ \E ws \in FaultObservers, o \in 1..MaxRows :
          handleOrderSubscription(ws, o)

FaultSpec == Init /\ [][FaultNext]_vars

\* ---- one monitor run with observers whose sockets close -------------------
\* the first firing of the timer over an order on ChannelSymbol created by
\* the API, and observers that subscribe to that symbol and to that order,
\* unsubscribe, and lose their connection
ChannelSymbol == "GMLI"

ChannelNext ==
    \/ Start
    \/ StartMonitorRun(BusRun)
    \/ FetchDone(BusRun)
    \/ FetchReturns(BusRun)
    \/ UpdateLastCheckedDone(BusRun)
    \/ SetTriggeredDone(BusRun)
    \/ SetTriggeredAtDone(BusRun)
    \/ ExecSuccess(BusRun)
    \/ ExecFailure(BusRun)
    \/ \E t \in OrderTypes, p \in Percents :
          CreateTriggerOrder(ChannelSymbol, t, p)
    \/ \E ws \in Observers : connection(ws)
    \/ \E ws \in Observers : handleSymbolSubscription(ws, ChannelSymbol)
    \/ \E ws \in Observers : handleSymbolUnsubscription(ws, ChannelSymbol)
    \/ \E ws \in Observers, o \in 1..MaxOrders :
          handleOrderSubscription(ws, o)
    \/ \E ws \in Observers, o \in 1..MaxOrders :
          handleOrderUnsubscription(ws, o)
    \/ \E ws \in Observers : socketCloses(ws)
    \/ \E ws \in Observers : handleDisconnect(ws)

ChannelSpec == Init /\ [][ChannelNext]_vars

\* ---- the timer over failing ticks -------------------------------------------
\* every firing of the timer over one inserted order, with a failing feed, a
\* failing executor and a failing store
SurvivalNext ==
    \/ Start
    \/ \E r \in Runs : StartMonitorRun(r)
    \/ \E r \in Runs : SelectFails(r)
    \/ \E r \in Runs : FetchDone(r)
    \/ \E r \in Runs : FetchReturns(r)
    \/ \E r \in Runs : FetchAttemptFails(r)
    \/ \E r \in Runs : RetryDelayDone(r)
    \/ \E r \in Runs : UpdateLastCheckedDone(r)
    \/ \E r \in Runs : SetBasePriceDone(r)
    \/ \E r \in Runs : SetTargetPriceDone(r)
    \/ \E r \in Runs : SetMonitoringDone(r)
    \/ \E r \in Runs : SetTriggeredDone(r)
    \/ \E r \in Runs : SetTriggeredAtDone(r)
    \/ \E r \in Runs : ExecSuccess(r)
    \/ \E r \in Runs : ExecFailure(r)
    \/ \E r \in Runs : StoreUpdateFails(r)
    \/ \E r \in Runs : ExecUpdatesFail(r)
    \/ \E r \in Runs : SetFailedDone(r)
    \/ \E r \in Runs : SetFailedFails(r)
    \/ \E s \in Symbols, t \in OrderTypes, p \in Percents :
          InsertOrder(s, t, p)

\* setInterval: while the monitor is running the callback of the timer is
\* called again and again
SurvivalFairness ==
    \A r \in Runs : WF_vars(StartMonitorRun(r) \/ SelectFails(r))

SurvivalSpec == Init /\ [][SurvivalNext]_vars /\ SurvivalFairness

\* ---- the timer of the monitor ---------------------------------------------
\* the periods a caller passes to setInterval
Periods == {0, 999, 1000, 5000, 60000}

\* OrderMonitorService.stop
Stop ==
    /\ SetTimer(stop(Timer))
    /\ UNCHANGED <<orders, cache, fetchedRecently, requestedRecently,
                   attempt, pc, snap, marketData, cur, cancelReq, execCalls,
                   executorCalled, createCalls, busVars, spellVars>>

\* OrderMonitorService.start, also on a monitor that is running
StartAgain ==
    /\ SetTimer(start(Timer))
    /\ UNCHANGED <<orders, cache, fetchedRecently, requestedRecently,
                   attempt, pc, snap, marketData, cur, cancelReq, execCalls,
                   executorCalled, createCalls, busVars, spellVars>>

\* OrderMonitorService.setInterval
SetIntervalMs(ms) ==
    /\ SetTimer(setInterval(Timer, ms))
    /\ UNCHANGED <<orders, cache, fetchedRecently, requestedRecently,
                   attempt, pc, snap, marketData, cur, cancelReq, execCalls,
                   executorCalled, createCalls, busVars, spellVars>>

\* start, stop and setInterval in any order, beside the first run of
\* monitorOrders over an inserted order
TimerNext ==
    \/ StartAgain
    \/ Stop
    \/ \E ms \in Periods : SetIntervalMs(ms)
    \/ StartMonitorRun(BusRun)
    \/ FetchDone(BusRun)
    \/ FetchReturns(BusRun)
    \/ UpdateLastCheckedDone(BusRun)
    \/ SetBasePriceDone(BusRun)
    \/ SetTargetPriceDone(BusRun)
    \/ SetMonitoringDone(BusRun)
    \/ \E s \in Symbols, t \in OrderTypes, p \in Percents :
          InsertOrder(s, t, p)

TimerSpec == Init /\ [][TimerNext]_vars

\* ---- runs that come to their end ------------------------------------------
\* the runs of the timer over one order on ChannelSymbol, with cancel
\* requests; the store answers every statement and every call of the feed
\* and of the executor returns
RunProgress(r) ==
    \/ FetchDone(r)
    \/ FetchReturns(r)
    \/ UpdateLastCheckedDone(r)
    \/ SetBasePriceDone(r)
    \/ SetTargetPriceDone(r)
    \/ SetMonitoringDone(r)
    \/ SetTriggeredDone(r)
    \/ SetTriggeredAtDone(r)
    \/ ExecSuccess(r)
    \/ ExecFailure(r)

ProgressNext ==
    \/ Start
    \/ IntervalElapses
    \/ \E r \in Runs : StartMonitorRun(r)
    \/ \E r \in Runs : RunProgress(r)
    \/ \E o \in 1..MaxOrders : CancelRead(o)
    \/ \E o \in 1..MaxOrders : CancelWrite(o)
    \/ \E t \in OrderTypes, p \in Percents :
          CreateTriggerOrder(ChannelSymbol, t, p)
    \/ \E t \in OrderTypes, p \in Percents :
          InsertOrder(ChannelSymbol, t, p)

\* an awaited statement of the store, call of the feed or call of the
\* executor returns
ProgressFairness == \A r \in Runs : WF_vars(RunProgress(r))

ProgressSpec == Init /\ [][ProgressNext]_vars /\ ProgressFairness

\* ---- the observers on their own --------------------------------------------
RegistryNext ==
    \/ \E ws \in Observers : connection(ws)
    \/ \E ws \in Observers, s \in WireSymbols :
          handleSymbolSubscription(ws, s)
    \/ \E ws \in Observers, s \in WireSymbols :
          handleSymbolUnsubscription(ws, s)
    \/ \E ws \in Observers, o \in 1..MaxRows :
          handleOrderSubscription(ws, o)
    \/ \E ws \in Observers, o \in 1..MaxRows :
          handleOrderUnsubscription(ws, o)
    \/ \E ws \in Observers : socketCloses(ws)
    \/ \E ws \in Observers : handleDisconnect(ws)

RegistrySpec == Init /\ [][RegistryNext]_vars

\* ---- the quote feed on its own --------------------------------------------
\* the callers of fetchLatestData and the calls themselves; the evaluation
\* of the orders that follows a call is not followed
FeedNext ==
    \/ Start
    \/ IntervalElapses
    \/ \E r \in Runs : StartMonitorRun(r)
    \/ \E r \in Runs : FetchDone(r)
    \/ \E r \in Runs : FetchReturns(r)
    \/ \E r \in Runs : FetchAttemptFails(r)
    \/ \E r \in Runs : RetryDelayDone(r)
    \/ \E s \in Symbols, t \in OrderTypes, p \in Percents :
          CreateTriggerOrder(s, t, p)
    \/ \E s \in Symbols, t \in OrderTypes, p \in Percents :
          InsertOrder(s, t, p)

\* every network attempt ends (response, error or timeout), every response
\* is read to its end and every timer set by fetchWithRetry fires
FeedFairness ==
    \A r \in Runs : /\ WF_vars(FetchDone(r) \/ FetchAttemptFails(r))
                    /\ WF_vars(RetryDelayDone(r))
                    /\ WF_vars(FetchReturns(r))

FeedSpec == Init /\ [][FeedNext]_vars /\ FeedFairness


\* ==== properties ===========================================================
\* a run is inside processOrder (from its first await to its return)
Evaluating(r) ==
    pc[r] \in {"lastChecked", "setBase", "setTarget", "setMonitoring",
               "setTriggered", "setTriggeredAt", "exec"}

\* the step in which run r enters processOrder for an order
BeginsEvaluation(r) ==
    /\ pc'[r] = "lastChecked"
    /\ pc[r] # "lastChecked" \/ cur'[r] # cur[r]

\* the row of the order under evaluation, as the run's select read it
Read(r) == snap[r][cur[r]]
Row(r) == orders[cur[r]]

\* C1: the executor is invoked at most once per order, over all ticks,
\* overlapping runs and cancel requests.
C1_AtMostOnceExecution ==
    \A o \in OrderIds : execCalls[o] <= 1

\* C2: no run evaluates orders while another run's evaluation is still in
\* progress; in particular no two evaluations of the same order are in
\* progress at the same time.
C2_ReentrancyGuard ==
    \A r1 \in Runs, r2 \in Runs :
        r1 # r2 => ~(Evaluating(r1) /\ Evaluating(r2))

\* C3: a terminal trigger_status is never changed by a later write of the
\* monitor or of the cancel endpoint.
C3_TerminalAbsorbing ==
    [][\A o \in OrderIds :
          orders[o].trigger_status \in TerminalStatuses
              => orders'[o].trigger_status = orders[o].trigger_status]_vars

Stage(status) ==
    CASE status = PENDING -> 0
      [] status = MONITORING -> 1
      [] status = TRIGGERED -> 2
      [] OTHER -> 3

Staged == {PENDING, MONITORING, TRIGGERED, EXECUTED, EXECUTION_FAILED, FAILED}

\* C4: with Pending < Monitoring < Triggered < {Executed, ExecutionFailed,
\* Failed}, no write moves an order's trigger_status to an earlier stage.
C4_MonotonicStatus ==
    [][\A o \in OrderIds :
          (orders[o].trigger_status \in Staged
           /\ orders'[o].trigger_status \in Staged)
              => Stage(orders'[o].trigger_status)
                    >= Stage(orders[o].trigger_status)]_vars

\* C5: processOrder never starts on an order whose persisted status is
\* terminal at that moment.
C5_NoEvaluationOfTerminal ==
    [][\A r \in Runs :
          BeginsEvaluation(r)
              => orders'[cur'[r]].trigger_status \notin TerminalStatuses]_vars

\* C6: base price and target price are set together (never one without the
\* other), and once set neither is written with a different value.
C6_BaseTargetSetOnce ==
    [][\A o \in OrderIds :
          /\ (orders'[o].base_price = NULL) = (orders'[o].target_price = NULL)
          /\ orders[o].base_price # NULL
                => orders'[o].base_price = orders[o].base_price
          /\ orders[o].target_price # NULL
                => orders'[o].target_price = orders[o].target_price]_vars


\* run r takes a step (every step of a run moves its pc or its order)
Stepped(r) == pc'[r] # pc[r] \/ cur'[r] # cur[r]

\* the trigger condition as the specification words it
Fires(orderType, price, target) ==
    \/ orderType = "Buy" /\ price >= target
    \/ orderType = "Sell" /\ price <= target

\* target = base * (1 + pct/100) for Buy, base * (1 - pct/100) for Sell
TargetOf(orderType, base, pct, target) ==
    target * 100 = base * (IF orderType = "Buy" THEN 100 + pct ELSE 100 - pct)

\* C7: in an evaluation of an order read with base and target price set, the
\* order goes to Triggered in that evaluation if and only if the observed
\* price is >= target (Buy) or <= target (Sell): the evaluation decides to
\* trigger exactly in that case, the decision is followed by the write of
\* TRIGGERED, and nothing else writes TRIGGERED.
C7_TriggerCondition ==
    [][/\ \A r \in Runs :
            /\ (pc[r] = "lastChecked" /\ Stepped(r)
                /\ Read(r).base_price # NULL /\ Read(r).target_price # NULL)
                  => ((pc'[r] = "setTriggered" /\ cur'[r] = cur[r])
                        <=> Fires(Row(r).order_type, currentPrice(r),
                                  Read(r).target_price))
            /\ (pc[r] = "setTriggered" /\ Stepped(r))
                  => orders'[cur[r]].trigger_status = TRIGGERED
            /\ (pc'[r] = "setTriggered" /\ Stepped(r))
                  => pc[r] = "lastChecked"
       /\ \A o \in OrderIds :
            (orders'[o].trigger_status = TRIGGERED
             /\ orders[o].trigger_status # TRIGGERED)
                => \E r \in Runs : pc[r] = "setTriggered" /\ cur[r] = o
                                   /\ Stepped(r)]_vars

\* C7 witness: a Sell order read with base and target set has been taken to
\* Triggered by an evaluation whose price is at or below the target
C7_Witness ==
    \E r \in Runs :
        /\ pc[r] = "setTriggeredAt"
        /\ Row(r).order_type = "Sell"
        /\ Read(r).base_price # NULL /\ Read(r).target_price # NULL
        /\ currentPrice(r) <= Read(r).target_price
        /\ Row(r).trigger_status = TRIGGERED

\* the target of base and pct, in 1/100 paisa, as the specification words it
ExactTarget(orderType, base, pct) ==
    base * (IF orderType = "Buy" THEN 100 + pct ELSE 100 - pct)

\* target is the exact target rounded to paisa (at most half a paisa away)
TargetRounded(orderType, base, pct, target) ==
    LET d == target * 100 - ExactTarget(orderType, base, pct)
    IN -50 <= d /\ d <= 50

\* C8 as claimed: the evaluation that establishes the base price from a
\* quote writes that quote as base and then exactly base * (1 +- pct/100) as
\* target, for every base price and percent.
C8_TargetExact ==
    [][\A r \in Runs :
          /\ (pc[r] = "setBase" /\ Stepped(r))
                => /\ orders'[cur[r]].base_price = currentPrice(r)
                   /\ pc'[r] = "setTarget"
          /\ (pc[r] = "setTarget" /\ Stepped(r))
                => TargetOf(Row(r).order_type, currentPrice(r),
                            Row(r).trigger_price_percent,
                            orders'[cur[r]].target_price)]_vars

\* C8 amended: the evaluation that establishes the base price from a quote
\* writes that quote as base and then base * (1 +- pct/100) rounded to two
\* decimal places as target; the creation route stores the target of the
\* row it inserts by the same rule.
C8_TargetPriceComputation ==
    [][/\ \A r \in Runs :
            /\ (pc[r] = "setBase" /\ Stepped(r))
                  => /\ orders'[cur[r]].base_price = currentPrice(r)
                     /\ pc'[r] = "setTarget"
            /\ (pc[r] = "setTarget" /\ Stepped(r))
                  => TargetRounded(Row(r).order_type, currentPrice(r),
                                   Row(r).trigger_price_percent,
                                   orders'[cur[r]].target_price)
       /\ Len(orders') > Len(orders)
            => LET new == orders'[Len(orders')]
               IN \/ new.base_price = NULL /\ new.target_price = NULL
                  \/ TargetRounded(new.order_type, new.base_price,
                                   new.trigger_price_percent,
                                   new.target_price)]_vars

\* C8 witness: the monitor has set base 1000.05 and target 920.05 of an 8%
\* Sell order from a quote, the exact product being 920.046
C8_Witness ==
    \E r \in Runs :
        /\ pc[r] = "setMonitoring"
        /\ Row(r).order_type = "Sell"
        /\ Row(r).trigger_price_percent = 8
        /\ currentPrice(r) = 100005
        /\ Row(r).base_price = 100005
        /\ Row(r).target_price = 92005


\* the order of the GMLI scenario: Buy, 8 percent
IsScenarioOrder(o) ==
    /\ orders[o].symbol = "GMLI"
    /\ orders[o].order_type = "Buy"
    /\ orders[o].trigger_price_percent = 8

\* the first tick of the scenario, target left open: the order is read with
\* no base price, LTP 2424 is observed, base becomes 2424, the target is
\* written and the status becomes Monitoring
ScenarioFirstTick(r, target) ==
    /\ (pc[r] = "lastChecked" /\ Stepped(r) /\ Read(r).base_price = NULL)
          => pc'[r] = "setBase"
    /\ (pc[r] = "setBase" /\ Stepped(r) /\ currentPrice(r) = 242400)
          => orders'[cur[r]].base_price = 242400 /\ pc'[r] = "setTarget"
    /\ (pc[r] = "setTarget" /\ Stepped(r) /\ currentPrice(r) = 242400)
          => orders'[cur[r]].target_price = target
             /\ pc'[r] = "setMonitoring"
    /\ (pc[r] = "setMonitoring" /\ Stepped(r))
          => orders'[cur[r]].trigger_status = MONITORING

\* a later tick of the scenario reads base 2424 with its target and observes
\* `price`: the order is taken Triggered and, on executor success, Executed
\* with that price as execution price
ScenarioFiringTick(r, price) ==
    /\ (pc[r] = "lastChecked" /\ Stepped(r) /\ Read(r).base_price = 242400
        /\ Read(r).target_price # NULL /\ currentPrice(r) = price)
          => pc'[r] = "setTriggered"
    /\ (pc[r] = "setTriggered" /\ Stepped(r))
          => orders'[cur[r]].trigger_status = TRIGGERED
             /\ pc'[r] = "setTriggeredAt"
    /\ (pc[r] = "setTriggeredAt" /\ Stepped(r)) => pc'[r] = "exec"
    /\ (pc[r] = "exec" /\ Stepped(r) /\ currentPrice(r) = price
        /\ orders'[cur[r]].trigger_status # EXECUTION_FAILED)
          => /\ orders'[cur[r]].trigger_status = EXECUTED
             /\ orders'[cur[r]].execution_price = price

ZeroPercentRead(r) ==
    /\ Row(r).trigger_price_percent = 0
    /\ Read(r).base_price # NULL
    /\ Read(r).target_price = Read(r).base_price

Fetching(r) == pc[r] \in {"fetch", "retryDelay"}

\* run r is inside the network path of fetchLatestData
InFetchCall(r) ==
    pc[r] \in {"fetch", "retryDelay", "received", "receivedInvalid"}

\* the step in which the last attempt of run r's fetchWithRetry fails
GivesUp(r) ==
    pc[r] = "fetch" /\ attempt[r] = retries /\ FetchAttemptFails(r)

\* the quotes the run works with after its fetchLatestData call returned m
WorksWith(r, m) ==
    \/ marketData'[r] = m /\ pc'[r] = "lastChecked"
    \/ pc'[r] = "done"
       /\ \A o \in DOMAIN snap[r] : m[orders[o].symbol] = NULL

\* C11: when all attempts of a fetchLatestData call have failed, the call
\* returns (no error reaches monitorOrders) exactly the quotes the cache
\* holds for the requested symbols.
C11_FeedFailureServesCache ==
    [][\A r \in Runs :
          GivesUp(r)
             => WorksWith(r, getStocksFromCache(activeSymbols(snap[r])))]_vars

\* the orders of run r's snapshot whose symbol has a quote in the cache
CachedOrders(r) ==
    {o \in DOMAIN snap[r] : cache[orders[o].symbol] # NULL}

\* C12: when the feed call of a tick fails three times and the cache holds a
\* quote for the symbol from an earlier tick, the tick evaluates the active
\* orders on that symbol against the cached price (they are not skipped) and
\* updates their last-checked timestamp.
C12_FeedFailureUsesCachedQuote ==
    [][\A r \in Runs :
          /\ (GivesUp(r) /\ CachedOrders(r) # {})
                => /\ pc'[r] = "lastChecked"
                   /\ cur'[r] = SetMin(CachedOrders(r))
                   /\ marketData'[r][orders[cur'[r]].symbol]
                         = cache[orders[cur'[r]].symbol]
          /\ (pc[r] = "lastChecked" /\ Stepped(r))
                => orders'[cur[r]].last_checked_at]_vars

\* the step is a monitorOrders run making its fetchLatestData call
Requests(r) ==
    pc[r] = "idle" /\ pc'[r] # "idle" /\ DOMAIN getPendingTriggerOrders # {}

\* C13: a fetchLatestData call made less than fetchInterval after another
\* call (finished or still in progress) makes no network call and is served
\* from the cache, so the two calls together make one network call.
C13_RateLimit ==
    [][/\ \A r \in Runs :
            (requestedRecently /\ Requests(r))
               => /\ ~Fetching(r)'
                  /\ WorksWith(r, getStocksFromCache(
                                     activeSymbols(getPendingTriggerOrders)))
       /\ (requestedRecently /\ Len(orders') > Len(orders)
           /\ orders'[Len(orders')].base_price # NULL)
             => /\ orders'[Len(orders')].base_price
                     = cache[orders'[Len(orders')].symbol]
                /\ cache' = cache]_vars

C15_CachesWholeResponse ==
    [][\A r \in Runs :
          (pc[r] = "received" /\ Stepped(r))
             => \A s \in Symbols :
                   marketData[r][s] # NULL => cache'[s] = marketData[r][s]]_vars

\* C15 amended: when a fetch succeeds, the quotes of the response whose
\* symbol was requested are in the cache when fetchLatestData returns; the
\* cache entries of all other symbols are left as they were.
C15_CachesRequestedQuotes ==
    [][\A r \in Runs :
          (pc[r] = "received" /\ Stepped(r))
             => \A s \in Symbols :
                   cache'[s] = IF s \in activeSymbols(snap[r])
                                  /\ marketData[r][s] # NULL
                               THEN marketData[r][s]
                               ELSE cache[s]]_vars

\* C15 witness: a response with a quote for the requested GMLI and for
\* NABIL, which was not requested and is not cached, is being received
C15_Witness ==
    \E r \in Runs :
        /\ pc[r] = "received"
        /\ activeSymbols(snap[r]) = {"GMLI"}
        /\ marketData[r]["GMLI"] # NULL
        /\ marketData[r]["NABIL"] # NULL
        /\ cache["NABIL"] = NULL

\* ---- C16 -----------------------------------------------------------------
\* C16: a run of monitorOrders whose select returns no active order ends at
\* once: it makes no call to the feed, sends no broadcast and leaves the
\* orders, the cache and the feed's bookkeeping as they were.
BeginsRun(r) == pc[r] = "idle" /\ pc'[r] # "idle"

C16_EmptyTickNoOp ==
    [][\A r \in Runs :
          (BeginsRun(r) /\ DOMAIN getPendingTriggerOrders = {})
              => /\ pc'[r] = "done"
                 /\ UNCHANGED <<orders, cache, fetchedRecently,
                                requestedRecently, execCalls,
                                executorCalled, createCalls,
                                busVars>>]_vars

\* the run has ended although no order was ever there, and observers are
\* subscribed
C16_Witness ==
    /\ pc[BusRun] = "done"
    /\ orders = <<>>
    /\ \E s \in Symbols : has(symbolSubscribers, s)
    /\ \E o \in 1..MaxOrders : has(orderSubscribers, o)

\* ---- C17 -----------------------------------------------------------------
\* the orders of the run's snapshot that come after order o and have a quote
Remaining(r, o) ==
    {n \in DOMAIN snap[r] : n > o /\ marketData[r][orders[n].symbol] # NULL}

\* the step in which the handling of a fault of the current order's
\* evaluation comes to its end: the catch block of processOrder is left, or
\* the catch block of executeOrder has written its status
FaultHandled(r) ==
    \/ pc[r] = "setFailed" /\ pc'[r] # "setFailed"
    \/ pc[r] = "exec" /\ ExecFailure(r)

FailurePublished(o) ==
    \A c \in subscribersOf(orderSubscribers, o) :
        /\ Len(inbox'[c]) = Len(inbox[c]) + 1
        /\ inbox'[c][Len(inbox'[c])].type = "ORDER_STATUS_UPDATE"
        /\ inbox'[c][Len(inbox'[c])].orderId = o
        /\ inbox'[c][Len(inbox'[c])].status = FAILED

\* C17: when a step of the evaluation of an order raises, the order becomes
\* FAILED, the failure is broadcast to the order's subscribers and the run
\* goes on with the next order of the tick that has a quote.
C17_FaultIsolation ==
    [][\A r \in Runs :
          FaultHandled(r)
              => /\ orders'[cur[r]].trigger_status = FAILED
                 /\ FailurePublished(cur[r])
                 /\ Remaining(r, cur[r]) # {}
                       => /\ pc'[r] = "lastChecked"
                          /\ cur'[r] = SetMin(Remaining(r, cur[r]))]_vars

\* ---- C18 -----------------------------------------------------------------
\* the step appends, for every subscriber of order o, a message about o that
\* carries the status
Publishes(o, status) ==
    \A c \in subscribersOf(orderSubscribers, o) :
        /\ Len(inbox'[c]) > Len(inbox[c])
        /\ \E i \in (Len(inbox[c]) + 1)..Len(inbox'[c]) :
              /\ inbox'[c][i].orderId = o
              /\ inbox'[c][i].status = status

StatusWritten(o) ==
    /\ o \in OrderIds
    /\ orders'[o].trigger_status # orders[o].trigger_status

\* C18: every write of a new trigger_status is published to the order's
\* subscribers by the handler that made it: at once, or, for TRIGGERED,
\* with the trigger notification that follows the write of triggered_at.
C18_EveryTransitionPublished ==
    [][/\ \A o \in 1..MaxOrders :
             (StatusWritten(o) /\ orders'[o].trigger_status # TRIGGERED)
                 => Publishes(o, orders'[o].trigger_status)
       /\ \A r \in Runs :
             (pc[r] = "setTriggeredAt" /\ pc'[r] = "exec")
                 => Publishes(cur[r], TRIGGERED)]_vars

\* ---- C19 -----------------------------------------------------------------
\* the order is CANCELLED, no evaluation has ever touched it and no run in
\* progress holds it in the result of its select
CancelledUnseen(o) ==
    /\ orders[o].trigger_status = CANCELLED
    /\ ~orders[o].last_checked_at
    /\ \A r \in Runs : o \notin DOMAIN snap[r]

\* C19: an order cancelled before any run has read it is in no result of
\* getPendingTriggerOrders from then on, has no base and no target price,
\* and the order executor has not been called for it, by executeOrder or by
\* the request that created it.
C19_CancelledBeforeEnumeration ==
    \A o \in OrderIds :
        CancelledUnseen(o)
            => /\ o \notin DOMAIN getPendingTriggerOrders
               /\ orders[o].base_price = NULL
               /\ orders[o].target_price = NULL
               /\ execCalls[o] = 0
               /\ createCalls[o] = 0

\* ---- C20 -----------------------------------------------------------------
\* the step appends a trigger notification for order o to the inbox of c
Notified(c, o) ==
    /\ Len(inbox'[c]) > Len(inbox[c])
    /\ \E i \in (Len(inbox[c]) + 1)..Len(inbox'[c]) :
          /\ inbox'[c][i].type = "TRIGGER_NOTIFICATION"
          /\ inbox'[c][i].orderId = o

NotifiesTrigger(r) == pc[r] = "setTriggeredAt" /\ pc'[r] = "exec"

\* C20: when the trigger notification of an order is broadcast, every
\* subscriber of the order and every subscriber of the order's symbol
\* receives it, whatever the other subscriptions are.
C20_TriggerNotificationFanOut ==
    [][\A r \in Runs :
          NotifiesTrigger(r)
              => \A c \in subscribersOf(orderSubscribers, cur[r])
                         \cup subscribersOf(symbolSubscribers,
                                            orders[cur[r]].symbol) :
                     Notified(c, cur[r])]_vars

\* ---- C21 -----------------------------------------------------------------
Disconnected(ws) == readyState[ws] = "CLOSED"

\* C21: once handleDisconnect(ws) has run, ws is in no set of
\* symbolSubscribers, in no set of orderSubscribers and not a key of
\* clients, whatever it subscribed to and unsubscribed from before.
C21_DisconnectRemovesAll ==
    \A ws \in Observers :
        Disconnected(ws)
            => /\ \A s \in DOMAIN symbolSubscribers :
                     ws \notin symbolSubscribers[s]
               /\ \A o \in DOMAIN orderSubscribers :
                     ws \notin orderSubscribers[o]
               /\ ~has(clients, ws)

\* ---- C22 -----------------------------------------------------------------
Received(c) == Len(inbox'[c]) > Len(inbox[c])

\* the messages the step appends to the inbox of c
NewMessages(c) ==
    {inbox'[c][i] : i \in (Len(inbox[c]) + 1)..Len(inbox'[c])}

\* the step in which processOrder, with base price set, broadcasts the price
PublishesPrice(r) ==
    /\ UpdateLastCheckedDone(r)
    /\ snap[r][cur[r]].base_price # NULL

RunMoves == \E r \in Runs : Stepped(r)

\* C22: an observer whose socket is not open receives nothing, in the step
\* that publishes and in every later step; nothing is delivered outside the
\* steps of a run that broadcast; and in a step that broadcasts a price the
\* subscribers of the symbol whose socket is open do receive it, whatever
\* the state of the other subscribers' sockets.
C22_BestEffortDelivery ==
    [][/\ \A c \in Observers :
             readyState[c] # "OPEN" => inbox'[c] = inbox[c]
       /\ (inbox' # inbox) => RunMoves
       /\ \A r \in Runs :
             PublishesPrice(r)
                 => \A c \in subscribersOf(symbolSubscribers,
                                           orders[cur[r]].symbol) :
                        readyState[c] = "OPEN"
                            => \E m \in NewMessages(c) :
                                  /\ m.type = "PRICE_UPDATE"
                                  /\ m.price = currentPrice(r)]_vars

\* two subscribers of the symbol have received the price; then one socket
\* was closing when the trigger notification went out to the other
C22_Witness ==
    \E c, d \in Observers :
        /\ readyState[c] = "CLOSING"
        /\ readyState[d] = "OPEN"
        /\ {c, d} \subseteq subscribersOf(symbolSubscribers, ChannelSymbol)
        /\ Len(inbox[c]) = 1
        /\ inbox[c][1].type = "PRICE_UPDATE"
        /\ Len(inbox[d]) = 2
        /\ inbox[d][1].type = "PRICE_UPDATE"
        /\ inbox[d][2].type = "TRIGGER_NOTIFICATION"

\* ---- C23 -----------------------------------------------------------------
\* what the observer has asked for and not taken back, as tracked for it
SubscribedToSymbol(c, symbol) ==
    has(clients, c) /\ symbolKey(symbol) \in clients[c]

SubscribedToOrder(c, o) ==
    has(clients, c) /\ orderKey(o) \in clients[c]

\* the step in which processOrder broadcasts the status of an order whose
\* target is not reached
PublishesStatus(r) ==
    /\ PublishesPrice(r)
    /\ ~isPriceTargetReached(currentPrice(r), snap[r][cur[r]].target_price,
                             orders[cur[r]].order_type)

PriceUpdates(c, symbol) ==
    {m \in NewMessages(c) : m.type = "PRICE_UPDATE" /\ m.symbol = symbol}

StatusUpdates(c, o) ==
    {m \in NewMessages(c) : m.type = "ORDER_STATUS_UPDATE" /\ m.orderId = o}

\* C23: a price update for a symbol, or a status update for an order, goes
\* to exactly the observers that are subscribed to that topic when it is
\* broadcast and whose socket is open; no other observer receives one.
C23_ExactFanOut ==
    [][\A c \in Observers :
          /\ \A s \in Symbols :
                PriceUpdates(c, s) # {}
                    <=> /\ \E r \in Runs :
                              PublishesPrice(r) /\ orders[cur[r]].symbol = s
                        /\ SubscribedToSymbol(c, s)
                        /\ readyState[c] = "OPEN"
          /\ \A o \in 1..MaxOrders :
                StatusUpdates(c, o) # {}
                    <=> /\ \E r \in Runs : PublishesStatus(r) /\ cur[r] = o
                        /\ SubscribedToOrder(c, o)
                        /\ readyState[c] = "OPEN"]_vars

\* one observer, subscribed to the symbol and to the order, has received the
\* price and the status; the other, connected and subscribed to nothing,
\* has received nothing
C23_Witness ==
    \E c, d \in Observers :
        /\ readyState[c] = "OPEN"
        /\ clients[c] = {}
        /\ inbox[c] = <<>>
        /\ readyState[d] = "OPEN"
        /\ SubscribedToSymbol(d, ChannelSymbol)
        /\ SubscribedToOrder(d, 1)
        /\ Len(inbox[d]) = 2
        /\ inbox[d][1].type = "PRICE_UPDATE"
        /\ inbox[d][2].type = "ORDER_STATUS_UPDATE"

\* ---- C24 -----------------------------------------------------------------
NextToFire(r) ==
    /\ isRunning
    /\ pc[r] = "idle"
    /\ \A q \in Runs : q < r => pc[q] # "idle"

\* C24: no failure of the feed, of the executor or of the store inside a
\* run stops the monitor; whatever became of the earlier runs, the timer
\* starts the next run; and a run whose select succeeds takes every active
\* order: it ends at once only when no order is active or when the recent
\* cache holds a quote for none of them.
C24_SchedulerSurvival ==
    /\ [][isRunning => isRunning']_vars
    /\ [][\A r \in Runs :
             (BeginsRun(r) /\ ~SelectFails(r))
                 => /\ pc'[r] # "done"
                          => DOMAIN snap'[r] = DOMAIN getPendingTriggerOrders
                    /\ pc'[r] = "done"
                          => \/ DOMAIN getPendingTriggerOrders = {}
                             \/ /\ fetchedRecently
                                /\ \A o \in DOMAIN getPendingTriggerOrders :
                                      cache[orders[o].symbol] = NULL]_vars
    /\ \A r \in Runs : NextToFire(r) ~> (pc[r] # "idle")

\* the feed failed in the first run, which went on with the stand-in price
\* and ended; the second run, begun after that, is evaluating the order
C24_Witness ==
    /\ pc[1] = "done"
    /\ Len(orders) = 1
    /\ createCalls[1] = 0
    /\ pc[2] = "lastChecked"
    /\ cur[2] = 1
    /\ snap[2][1].trigger_status = MONITORING
    /\ snap[2][1].base_price = MockPrice

\* ---- C25 -----------------------------------------------------------------
\* the step in which fetchLatestData deals with a response that lacks
\* stock.detail
HandlesMalformed(r) ==
    pc[r] = "receivedInvalid" /\ pc'[r] # "receivedInvalid"

\* C25: a response of the wrong format is dealt with as a failed transport
\* is: the call returns what it returns when fetchWithRetry gives up, and
\* leaves the cache and the time of the last successful fetch as they were.
C25_MalformedAsUnavailable ==
    [][\A r \in Runs :
          HandlesMalformed(r)
              => LET symbols == activeSymbols(snap[r])
                 IN /\ ReturnOutcome(r).stocks = GiveUpOutcome(symbols).stocks
                    /\ cache' = GiveUpOutcome(symbols).cache
                    /\ fetchedRecently' = GiveUpOutcome(symbols).recent]_vars

\* ---- C26 -----------------------------------------------------------------
\* the status an order must have before a write of the given status on the
\* success path
StageBefore(status) ==
    IF status = MONITORING THEN PENDING
    ELSE IF status = TRIGGERED THEN MONITORING
    ELSE TRIGGERED

\* C26: the statuses of the success path are written in order: MONITORING
\* over PENDING, TRIGGERED over MONITORING, EXECUTED over TRIGGERED.
C26_NoStageSkipped ==
    [][\A o \in OrderIds :
          (StatusWritten(o)
             /\ orders'[o].trigger_status \in {MONITORING, TRIGGERED, EXECUTED})
              => orders[o].trigger_status
                     = StageBefore(orders'[o].trigger_status)]_vars

\* ---- C27 -----------------------------------------------------------------
\* C27: CANCELLED is written only over PENDING or MONITORING: the status
\* the row has when the write of the cancel request is applied is one of
\* the two, whatever a run has done since the request read the row.
C27_CancelOnlyActive ==
    [][\A o \in OrderIds :
          (StatusWritten(o) /\ orders'[o].trigger_status = CANCELLED)
              => orders[o].trigger_status \in cancellableStatuses]_vars

\* ---- C28 -----------------------------------------------------------------
ExecutionFailedStatuses == {EXECUTION_FAILED, FAILED}

\* the executor has been called for order o and the execution is recorded
\* as failed
FailedExecution(o) ==
    /\ execCalls[o] >= 1
    /\ orders[o].trigger_status \in ExecutionFailedStatuses

\* some run calls the executor for order o in this step
CallsExecutor(o) == \E r \in Runs : cur[r] = o /\ SetTriggeredAtDone(r)

\* C28: when the executor fails, the order is left EXECUTION_FAILED (or
\* FAILED) with executed_at and execution_price unset, it stays so, and the
\* executor is not called for it again, in this run or in a later one.
C28_FailedExecutionIsFinal ==
    [][\A o \in OrderIds :
          /\ (\E r \in Runs : cur[r] = o /\ ExecFailure(r))
                => /\ orders'[o].trigger_status = EXECUTION_FAILED
                   /\ ~orders'[o].executed_at
                   /\ orders'[o].execution_price = NULL
          /\ FailedExecution(o)
                => /\ ~CallsExecutor(o)
                   /\ orders'[o].trigger_status \in ExecutionFailedStatuses
                   /\ orders'[o].executed_at = orders[o].executed_at
                   /\ orders'[o].execution_price = orders[o].execution_price
      ]_vars

\* ---- C29 -----------------------------------------------------------------
\* the step appends to the inbox of c the trigger notification of order o
\* with status TRIGGERED and the given price
NotifiedFiring(c, o, price) ==
    \E i \in (Len(inbox[c]) + 1)..Len(inbox'[c]) :
        inbox'[c][i] = Message("TRIGGER_NOTIFICATION", o, orders[o].symbol,
                               TRIGGERED, price)

\* run r evaluated the trigger condition of its current order as met
ConditionMet(r) ==
    isPriceTargetReached(currentPrice(r), snap[r][cur[r]].target_price,
                         orders[cur[r]].order_type)

\* in this step run r calls the executor after the condition was met,
\* TRIGGERED and triggered_at were written and the notification went out
ExecutesInOrder(r) ==
    /\ ConditionMet(r)
    /\ pc[r] = "setTriggeredAt"
    /\ orders'[cur[r]].triggered_at
    /\ \A c \in subscribersOf(orderSubscribers, cur[r])
                 \cup subscribersOf(symbolSubscribers,
                                    orders[cur[r]].symbol) :
           readyState[c] = "OPEN"
               => NotifiedFiring(c, cur[r], currentPrice(r))

\* the order executor has been called for order o, by executeOrder or by
\* the request that created the order
ExecutorInvoked(o) == execCalls'[o] + createCalls'[o] > 0

\* C29: the executor is called for an order only after, in the same
\* evaluation, the trigger condition was met, TRIGGERED and triggered_at
\* were written and the trigger notification with the firing price and
\* status TRIGGERED was published; it is never called for an order whose
\* condition was not met.
C29_TriggerBeforeExecution ==
    [][/\ \A r \in Runs :
             (pc'[r] = "exec" /\ pc[r] # "exec") => ExecutesInOrder(r)
       /\ \A o \in DOMAIN orders' :
             ExecutorInvoked(o) => orders'[o].triggered_at]_vars

\* ---- C30 -----------------------------------------------------------------
\* base price and target price are both set and differ by less than the
\* tolerance
PricesCoincide(base, target) ==
    /\ base # NULL
    /\ target # NULL
    /\ Abs(base - target) < Tolerance

\* in this step executeOrder of run r calls an executor
ChoosesExecutor(r) ==
    /\ pc[r] = "setTriggeredAt"
    /\ pc'[r] = "exec"
    /\ execCalls[cur[r]] < ExecCap

\* the executor called in this step for order o
Called(o) == executorCalled'[o][Len(executorCalled'[o])]

ExecutorInFlight(r) == pc[r] = "exec"

\* run r goes on to a later order of its snapshot while the outcome of the
\* executor call for its current order is still to be recorded
EvaluatesNextMeanwhile(r) ==
    /\ FaultNext
    /\ cur'[r] \in Remaining(r, cur[r])
    /\ orders'[cur[r]].trigger_status = orders[cur[r]].trigger_status
    /\ ~orders'[cur[r]].executed_at

\* C31: while the executor call for a triggered order is in flight, the
\* run can go on to the remaining orders of its snapshot.
C31_ExecutorDoesNotBlock ==
    \A r \in Runs :
        (ExecutorInFlight(r) /\ Remaining(r, cur[r]) # {})
            => ENABLED EvaluatesNextMeanwhile(r)

\* ---- C32 -----------------------------------------------------------------
\* run r is in its loop over pendingOrders
Processing(r) ==
    pc[r] \in {"lastChecked", "setBase", "setTarget", "setMonitoring",
               "setTriggered", "setTriggeredAt", "exec", "setFailed"}

\* order o is in the snapshot of run r and the feed returned no quote for
\* its symbol
NoQuote(r, o) ==
    /\ o \in DOMAIN snap[r]
    /\ marketData[r][orders[o].symbol] = NULL

\* the step publishes something about order o
PublishedAbout(o) ==
    \E c \in Observers : \E m \in NewMessages(c) : m.orderId = o

\* the orders of the snapshot of run r that got a quote from the fetch that
\* returns in this step
QuotedOrders(r) ==
    {o \in DOMAIN snap[r] : ReturnOutcome(r).stocks[orders[o].symbol] # NULL}

\* C32: an order whose symbol got no quote is skipped by the run: the row
\* is not written, nothing is published about it and no executor is
\* called, and the run, unless a failing store ends it, goes on to the
\* orders that have a quote.
C32_NoQuoteSkip ==
    [][\A r \in Runs :
          /\ Processing(r)
                => \A o \in OrderIds :
                      NoQuote(r, o)
                          => /\ orders'[o] = orders[o]
                             /\ execCalls'[o] = execCalls[o]
                             /\ ~PublishedAbout(o)
          /\ (Processing(r) /\ cur'[r] # cur[r] /\ ~SetFailedFails(r))
                => IF Remaining(r, cur[r]) = {}
                   THEN pc'[r] = "done"
                   ELSE /\ pc'[r] = "lastChecked"
                        /\ cur'[r] = SetMin(Remaining(r, cur[r]))
          /\ (FetchReturns(r) /\ QuotedOrders(r) # {})
                => /\ pc'[r] = "lastChecked"
                   /\ cur'[r] = SetMin(QuotedOrders(r))]_vars

\* the first order of the snapshot had no quote and has not been touched,
\* the second one has been evaluated
C32_Witness ==
    \E r \in Runs :
        /\ Processing(r)
        /\ NoQuote(r, 1)
        /\ ~orders[1].last_checked_at
        /\ cur[r] = 2
        /\ orders[2].last_checked_at

\* ---- C33 -----------------------------------------------------------------
\* run r evaluates its current order, which has a base price, and finds the
\* trigger condition not met
EvaluatesWithoutTrigger(r) == PublishesStatus(r)

\* the step appends to the inbox of c a status update of order o with the
\* given status
StatusPublished(c, o, status) ==
    \E m \in NewMessages(c) :
        /\ m.type = "ORDER_STATUS_UPDATE"
        /\ m.orderId = o
        /\ m.status = status

\* C33: an evaluation that does not trigger writes last_checked_at and
\* nothing else of the row, calls no executor, and publishes the status of
\* the order, unchanged, to the subscribers of the order.
C33_EvaluationWithoutTrigger ==
    [][\A r \in Runs :
          EvaluatesWithoutTrigger(r)
              => LET o == cur[r]
                 IN /\ orders'[o] = [orders[o] EXCEPT !.last_checked_at = TRUE]
                    /\ execCalls'[o] = execCalls[o]
                    /\ executorCalled'[o] = executorCalled[o]
                    /\ \A c \in subscribersOf(orderSubscribers, o) :
                          readyState[c] = "OPEN"
                              => StatusPublished(c, o,
                                                 orders'[o].trigger_status)
      ]_vars

\* ---- C34 -----------------------------------------------------------------
FetchStages == {"fetch", "retryDelay", "received", "receivedInvalid"}

\* the distinct symbols of the orders run r has selected
SymbolsOf(r) == {orders[o].symbol : o \in DOMAIN snap[r]}

\* C34: a run that finds active orders calls fetchLatestData once, for the
\* symbols of all of them: the call is made when the run begins, every order
\* of the run is evaluated on the one result of that call, which holds the
\* answer for each symbol of the snapshot, and no further call is made while
\* the orders are processed.
C34_OneFetchPerTick ==
    [][\A r \in Runs :
          /\ (BeginsRun(r) /\ DOMAIN getPendingTriggerOrders # {})
                => /\ requestedRecently'
                   /\ \/ pc'[r] = "fetch" /\ snap'[r] = getPendingTriggerOrders
                      \/ fetchedRecently /\ pc'[r] \in {"lastChecked", "done"}
          /\ (pc[r] \in FetchStages /\ pc'[r] # "done")
                => snap'[r] = snap[r]
          /\ (pc[r] = "received" /\ pc'[r] = "lastChecked")
                => \A s \in Symbols :
                      marketData'[r][s] =
                          IF s \in SymbolsOf(r) THEN marketData[r][s]
                                                ELSE NULL
          /\ Processing(r)
                => /\ pc'[r] \notin FetchStages
                   /\ pc'[r] # "done"
                         => /\ marketData'[r] = marketData[r]
                            /\ snap'[r] = snap[r]]_vars

\* a run is processing two inserted orders on different symbols with the
\* quotes of both, which its one call of the feed returned
C34_Witness ==
    \E r \in Runs :
        /\ Processing(r)
        /\ DOMAIN snap[r] = {1, 2}
        /\ orders[1].symbol # orders[2].symbol
        /\ \A s \in SymbolsOf(r) : marketData[r][s] # NULL
        /\ createCalls = <<0, 0>>

\* ---- C35 -----------------------------------------------------------------
\* C35: whatever calls of start, stop and setInterval were made, at most one
\* repeating timer is set, one is set if and only if isRunning, its handle
\* is the one kept in monitorInterval, no period is below 1000 ms, and
\* start on a running monitor and stop on a stopped one change nothing.
C35_TimerInvariant ==
    /\ Cardinality(DOMAIN timers) <= 1
    /\ isRunning <=> DOMAIN timers # {}
    /\ isRunning => DOMAIN timers = {monitorInterval}
    /\ ~isRunning => monitorInterval = NULL
    /\ intervalMs >= MinIntervalMs
    /\ \A h \in DOMAIN timers : timers[h] >= MinIntervalMs
    /\ isRunning => start(Timer) = Timer
    /\ ~isRunning => stop(Timer) = Timer

\* the monitor is running on a timer of 1000 ms, which setInterval has set
\* in place of the one start had set, while a run is in progress
C35_Witness ==
    /\ isRunning
    /\ intervalMs = MinIntervalMs
    /\ timers = set(<<>>, monitorInterval, MinIntervalMs)
    /\ pc[BusRun] = "setMonitoring"

\* ---- C36 -----------------------------------------------------------------
\* the price is one the upstream endpoint reports for the symbol
Reported(symbol, price) == price \in Quoted[symbol]

\* C36: an order triggers only on a price the upstream endpoint reported
\* for its symbol, and the execution price recorded for an order is such a
\* price; a price made up by fetchLatestData never fires or executes an
\* order.
C36_OnlyReportedPrices ==
    [][\A r \in Runs :
          /\ SetTriggeredDone(r)
                => Reported(orders[cur[r]].symbol, currentPrice(r))
          /\ (ExecSuccess(r) /\ orders'[cur[r]].execution_price # NULL)
                => Reported(orders[cur[r]].symbol,
                            orders'[cur[r]].execution_price)]_vars

\* ---- C37 -----------------------------------------------------------------
Outcomes == {EXECUTED, EXECUTION_FAILED, FAILED}

\* no run of monitorOrders is in progress
NoRunInProgress == \A r \in Runs : pc[r] \in {"idle", "done"}

\* C37: with a store that answers and an executor that returns, an order
\* that is TRIGGERED comes to EXECUTED, EXECUTION_FAILED or FAILED, and when
\* no run is in progress no order is TRIGGERED.
C37_TriggeredIsTransient ==
    /\ \A o \in 1..MaxOrders :
          (o \in OrderIds /\ orders[o].trigger_status = TRIGGERED)
              ~> (o \in OrderIds /\ orders[o].trigger_status \in Outcomes)
    /\ [](NoRunInProgress
            => \A o \in OrderIds : orders[o].trigger_status # TRIGGERED)

\* every run has ended and the order, which had triggered, is left
\* EXECUTION_FAILED
C37_Witness ==
    /\ \A r \in Runs : pc[r] = "done"
    /\ \E o \in OrderIds :
          /\ orders[o].triggered_at
          /\ orders[o].trigger_status = EXECUTION_FAILED

\* ---- C38 -----------------------------------------------------------------
\* the keys tracked for observer c
Tracked(c) == IF has(clients, c) THEN clients[c] ELSE {}

\* C38: the set tracked for an observer holds the key of a symbol (of an
\* order) exactly if the observer is in the subscriber set of that symbol
\* (order); neither map keeps an empty subscriber set; and a second
\* subscription to the same topic changes nothing.
C38_RegistryConsistent ==
    /\ \A c \in Observers :
          /\ \A s \in WireSymbols :
                symbolKey(s) \in Tracked(c)
                    <=> c \in subscribersOf(symbolSubscribers, s)
          /\ \A o \in 1..MaxRows :
                orderKey(o) \in Tracked(c)
                    <=> c \in subscribersOf(orderSubscribers, o)
    /\ \A s \in DOMAIN symbolSubscribers : symbolSubscribers[s] # {}
    /\ \A o \in DOMAIN orderSubscribers : orderSubscribers[o] # {}
    /\ \A c \in DOMAIN clients :
          /\ \A s \in WireSymbols :
                symbolKey(s) \in clients[c]
                    => symbolSubscription(Registry, c, s) = Registry
          /\ \A o \in 1..MaxRows :
                orderKey(o) \in clients[c]
                    => orderSubscription(Registry, c, o) = Registry

\* ---- the feed with the spelling of its symbols ---------------------------
\* The symbols as callers and the upstream endpoint write them.  The cache
\* is a Map with the strings themselves as keys; the filter of a response
\* compares the strings in upper case.
Spellings == {"GMLI", "gmli", "NABIL"}

\* everything but the feed followed with its spelling
unspelledVars ==
    <<orders, cache, fetchedRecently, requestedRecently, attempt, isRunning,
      timerVars, pc, snap, marketData, cur, cancelReq, execCalls,
      executorCalled, createCalls, busVars>>

toUpperCase(s) == IF s \in {"GMLI", "gmli"} THEN "GMLI" ELSE "NABIL"

RowPrices == {100005, 242400}

Rows == [s : Spellings, lp : RowPrices]

\* data.stock.detail of a response: at most one row for a stock, under the
\* spelling the endpoint uses in that response
Details ==
    {d \in SUBSET Rows :
        \A x, y \in d : toUpperCase(x.s) = toUpperCase(y.s) => x = y}

\* processMarketData for a non-empty list of symbols
filterDetail(detail, symbols) ==
    {item \in detail :
        toUpperCase(item.s) \in {toUpperCase(q) : q \in symbols}}

\* updateCache: cache.set(stock.s, stock) for every row
cacheRows(c, stocks) ==
    [k \in DOMAIN c \cup {x.s : x \in stocks} |->
        IF \E x \in stocks : x.s = k
        THEN CHOOSE x \in stocks : x.s = k
        ELSE c[k]]

\* getStocksFromCache: cache.get(symbol) for every symbol, without the
\* undefined ones
cachedRows(c, symbols) == {c[q] : q \in symbols \cap DOMAIN c}

\* the catch block of fetchLatestData
mockRows(symbols) == {[s |-> q, lp |-> MockPrice] : q \in symbols}

\* the call has returned stocks for symbols on the given path
Returned(symbols, stocks, path) ==
    [lastCall EXCEPT !.symbols = symbols, !.stocks = stocks, !.path = path]

\* fetchLatestData([])
FetchNothing ==
    /\ lastCall' = Returned({}, {}, "empty")
    /\ UNCHANGED <<spelledCache, spelledRecent>>
    /\ UNCHANGED unspelledVars

\* fetchLatestData(symbols) less than fetchInterval after lastFetchTime
FetchFromCache(symbols) ==
    /\ symbols # {}
    /\ spelledRecent
    /\ lastCall' = Returned(symbols, cachedRows(spelledCache, symbols),
                            "cache")
    /\ UNCHANGED <<spelledCache, spelledRecent>>
    /\ UNCHANGED unspelledVars

\* fetchLatestData(symbols) answered by the endpoint with the rows detail
FetchFresh(symbols, detail) ==
    /\ symbols # {}
    /\ ~spelledRecent
    /\ spelledRecent' = TRUE
    /\ spelledCache' = cacheRows(spelledCache, filterDetail(detail, symbols))
    /\ lastCall' = [freshSymbols |-> symbols,
                    freshStocks |-> filterDetail(detail, symbols),
                    symbols |-> symbols,
                    stocks |-> filterDetail(detail, symbols),
                    path |-> "fresh"]
    /\ UNCHANGED unspelledVars

\* fetchLatestData(symbols) answered with a body of the wrong format
\* (answered), or not answered in any attempt of fetchWithRetry
FetchFallsBack(symbols, answered) ==
    /\ symbols # {}
    /\ ~spelledRecent
    /\ spelledRecent' = answered
    /\ lastCall' = [freshSymbols |-> {}, freshStocks |-> {},
                    symbols |-> symbols, stocks |-> mockRows(symbols),
                    path |-> "mock"]
    /\ UNCHANGED spelledCache
    /\ UNCHANGED unspelledVars

\* fetchInterval has passed since lastFetchTime
FetchIntervalPasses ==
    /\ spelledRecent
    /\ spelledRecent' = FALSE
    /\ UNCHANGED <<spelledCache, lastCall>>
    /\ UNCHANGED unspelledVars

SpellingNext ==
    \/ FetchNothing
    \/ \E symbols \in SUBSET Spellings : FetchFromCache(symbols)
    \/ \E symbols \in SUBSET Spellings, detail \in Details :
          FetchFresh(symbols, detail)
    \/ \E symbols \in SUBSET Spellings, answered \in BOOLEAN :
          FetchFallsBack(symbols, answered)
    \/ FetchIntervalPasses

SpellingSpec == Init /\ [][SpellingNext]_vars

\* ---- C39 -----------------------------------------------------------------
\* the rows among stocks that a caller takes for the symbol q (monitorOrders
\* compares in upper case)
Matching(stocks, q) == {x \in stocks : toUpperCase(x.s) = toUpperCase(q)}

\* C39: when a call of fetchLatestData is served from the cache, then for
\* every symbol string it asks for that the last fresh fetch was asked for
\* too and returned a quote for, it returns that same quote.
C39_CacheRoundTrip ==
    lastCall.path = "cache" =>
        \A q \in lastCall.freshSymbols \cap lastCall.symbols :
            Matching(lastCall.freshStocks, q) # {}
                => Matching(lastCall.stocks, q)
                       = Matching(lastCall.freshStocks, q)

\* ---- C40 -----------------------------------------------------------------
\* the trigger notifications of order o that observer c is sent in the step
Deliveries(c, o) ==
    {i \in (Len(inbox[c]) + 1)..Len(inbox'[c]) :
        /\ inbox'[c][i].type = "TRIGGER_NOTIFICATION"
        /\ inbox'[c][i].orderId = o}

\* C40: a call of broadcastTriggerNotification sends the notification to
\* any one observer at most once, also to an observer that is subscribed to
\* the order and to the order's symbol.
C40_DeliveredAtMostOnce ==
    [][\A r \in Runs :
          SetTriggeredAtDone(r)
              => \A c \in Observers : Cardinality(Deliveries(c, cur[r])) <= 1
      ]_vars

====
